---- MODULE Spec2Model ----
(***************************************************************************)
(* Model of the nightfall_3 SDK (cli/lib/nf3.mjs) and of the start-up of   *)
(* the optimist node (nightfall-optimist/src/index.mjs).                   *)
(*                                                                         *)
(*  Spec        the SDK: the four module-level job queues,                 *)
(*              submitTransaction, the proposer and challenger             *)
(*              subscriptions                                              *)
(*  SpecLive    Spec with fair sending and fair chain events               *)
(*  SpecEvents  the calls' submissions with the events after the first     *)
(*  SpecMsgs    Spec with messages of types the subscriptions ignore       *)
(*  SpecShared  the queues used by two Nf3 instances; the chain answers    *)
(*              all but the proposer's transactions                        *)
(*  SpecOpt     the optimist: main(), the synchronizer and the assembler   *)
(*  SpecOptLive SpecOpt with a fair assembler and fair submissions        *)
(*  SpecSync    the optimist's synchronizer, run and run again             *)
(*  SpecUser    the user's calls: transfer, withdraw, finaliseWithdrawal,  *)
(*              requestInstantWithdrawal                                   *)
(*  SpecDeposit the user's deposit() calls on a restricted token           *)
(*  SpecDepositLive  SpecDeposit with a client and a chain that answer     *)
(*  SpecGas     estimateGas and estimateGasPrice                           *)
(*  SpecL2      emptyL2 of the test with a proposer, both fair             *)
(*  SpecConn    the subscription's reconnecting socket and the web3        *)
(*              provider's reconnection                                    *)
(*  SpecW3      the web3 provider alone, its reconnection timer fair       *)
(*                                                                         *)
(* The queues are instances of the npm package queue (^6.0.2) created with *)
(* { autostart: true, concurrency: 1 }; no listener is registered for the  *)
(* queue's 'error' event anywhere in nf3.mjs.  A rejected promise nobody   *)
(* handles is taken to leave the process running.                          *)
(***************************************************************************)
EXTENDS Integers, Sequences, FiniteSets, TLC

\* ------------------------------------------------------------------ bounds
MaxTasks == 3     \* submissions (queued jobs and direct calls) per run
MaxDirect == 1    \* direct calls of submitTransaction per run
MaxLate == 1      \* events emitted for transactions already settled
MaxDeposits == 2  \* deposit() calls waiting for the client at one time
MaxChain == 3     \* blocks the chain has recorded when the optimist starts
MaxLiveChain == 1 \* the same, where the optimist's live duties are checked
MaxAssembled == 3 \* blocks the optimist assembles
MaxFaulty == 1    \* faulty blocks the chain notifies
MaxTx == 3        \* layer-2 transactions the optimist receives
MaxEvq == 2       \* chain notifications waiting in the optimist's event queue
MaxWei == 3       \* the chain's answers to getGasPrice and estimateGas
MaxBlocks == 1    \* challengeable blocks
MaxOther == 1     \* messages of a type a subscription ignores
MaxDrops == 3     \* losses of the subscription's connection
MaxMsgs == 2      \* notifications the optimist sends on the subscription
MaxProbes == 1    \* unanswered pings on one socket
MaxPerBlock == 3  \* TRANSACTIONS_PER_BLOCK of a deployment
MaxStart == 4     \* unprocessed transactions when emptyL2 is called
MaxValue == 3     \* the value of a deposit
MaxCalls == 2     \* calls of transfer, withdraw and requestInstantWithdrawal
MaxAmount == 8    \* the withdraw limit of a restricted token
MaxInstances == 2 \* Nf3 instances in one process

\* ------------------------------------------------------------- SDK: state
VARIABLES
  tasks,          \* every submission so far, in push order; `ended` tells
                  \* that its queue emitted 'end' when its job finished,
                  \* `inst` which Nf3 instance pushed it
  jobs,           \* Queue.jobs: the waiting jobs of each queue (task indexes)
  pending,        \* Queue.pending: the number of running jobs of each queue
  deposits,       \* the deposit() calls so far: the value, the task of
                  \* the approval job and of the deposit job (0: none)
  rx,             \* the messages each subscription has received, by type
  engine,         \* ChallengeEngine phase of each block
  chainCommit,    \* who holds the on-chain commit of each block
  chainReveal     \* the blocks a reveal of this challenger was sent for

sdkVars == <<tasks, jobs, pending, deposits, rx, engine,
             chainCommit, chainReveal>>

\* -------------------------------------------------------- optimist: state
VARIABLES
  pc,                \* where main() is
  wsSubs,            \* the websocket subscriptions main() has set up
  sync,              \* initialBlockSync: "idle", "running", "ready", "failed"
  listening,         \* app.listen(80) was called
  mirror,            \* blocks in the local mirror
  chainN,            \* blocks the chain has recorded
  badBlock,          \* the block that fails validation (0: none)
  eventQueueStarted, \* startEventQueue was called
  makeBlockStarted,  \* conditionalMakeBlock was called
  evq,               \* chain notifications not yet processed
  selfOf,            \* the isSelf flag of each Proposer record
  pool,              \* unincluded transactions, oldest first
  txCount,           \* transactions received so far
  assembled,         \* the blocks assembled so far
  makeNow,           \* a make-now signal is pending
  proposal,          \* the assembled block whose submission is under way
  outcomes,          \* how the submission of each assembled block ended
  marked,            \* the blocks marked assembled: proposed on-chain
  challenges,        \* challenges raised so far
  applied,           \* the blocks the synchronizer has applied, in order
  rerun,             \* a later run of the synchronizer: "none", "running",
                     \* "done"
  registered         \* a proposer of this node was registered with the
                     \* optimist over HTTP

asmVars == <<proposal, outcomes, marked>>

nodeVars == <<rerun, registered>>

optVars == <<pc, wsSubs, sync, listening, mirror, chainN, badBlock,
             eventQueueStarted, makeBlockStarted, evq, selfOf, pool, txCount,
             assembled, makeNow, asmVars, challenges, applied, nodeVars>>

\* ------------------------------------------------- gas estimation: state
VARIABLES
  gasIn,     \* what the estimator and the chain answer
  gasPc,     \* where submitTransaction's estimation is
  gasAsked,  \* the sources estimateGasPrice has queried
  gasPrice,  \* estimateGasPrice's result
  gasLimit,  \* estimateGas's result
  ethereumSigningKey, \* this.ethereumSigningKey is set
  sentVia    \* how submitTransaction sent: "none", "signed" (signTransaction
             \* and sendSignedTransaction), "unsigned" (sendTransaction)

signVars == <<ethereumSigningKey, sentVia>>

gasVars == <<gasIn, gasPc, gasAsked, gasPrice, gasLimit, signVars>>

\* ---------------------------------------------------- connections: state
VARIABLES
  wsState,       \* the subscription's ReconnectingWebSocket: "waiting" for
                 \* the delay before a socket is made, "connecting", "open",
                 \* "closed" by close()
  retryCount,    \* ReconnectingWebSocket._retryCount
  minReconnectionDelay, \* the package's default, drawn once when it loads
  delays,        \* the delay (ms) before each reconnection attempt so far
  handshakes,    \* channel handshakes sent on the present socket
  handledHere,   \* messages handled on the present socket
  timers,        \* keepalive interval timers that are active
  probes,        \* pings sent on the present socket and not answered yet
  missed,        \* a ping of the present socket got no timely pong
  pingThrew,     \* a timer's ping threw (the socket was still connecting)
  srv,           \* notifications the optimist has sent so far
  delivered,     \* the notifications that arrived on the connection
  handled,       \* the notifications onmessage was called with
  w3State,       \* the web3 WebsocketProvider: "open", "waiting",
                 \* "connecting", "failed", "closed"
  reconnectAttempts, \* WebsocketProvider.reconnectAttempts
  w3Delays,      \* the set of delays (ms) the provider has waited
  w3Errors       \* 'error' events of the provider that nf3 has logged

connVars == <<wsState, retryCount, minReconnectionDelay, delays,
              handshakes, handledHere, timers, probes, missed, pingThrew,
              srv, delivered, handled, w3State, reconnectAttempts, w3Delays,
              w3Errors>>

\* ------------------------------------------------ the test's emptyL2: state
VARIABLES
  txPerBlock,    \* the deployment's TRANSACTIONS_PER_BLOCK
  mempool,       \* unprocessed transactions the optimist holds
  eventLogs,     \* blockProposed events logged and not yet waited for
  count,         \* emptyL2's local count
  l2Pc           \* emptyL2's position: "idle", "read", "loop", "wait",
                 \* "finalWait", "returned"

l2Vars == <<txPerBlock, mempool, eventLogs, count, l2Pc>>

\* ------------------------------------- the user's calls and the chain
VARIABLES
  calls,         \* the calls of transfer, withdraw and
                 \* requestInstantWithdrawal so far, with what they returned
  windowElapsed, \* the challenge window of the block that holds the
                 \* withdrawal has elapsed
  restriction    \* the deposit and withdraw limits the deployment set for
                 \* the token

apiVars == <<calls, windowElapsed, restriction>>

vars == <<sdkVars, optVars, gasVars, connVars, l2Vars, apiVars>>

otherThanUser == <<optVars, gasVars, connVars, l2Vars>>
otherThanSdk == <<otherThanUser, apiVars>>
otherThanOpt == <<sdkVars, gasVars, connVars, l2Vars, apiVars>>
otherThanGas == <<sdkVars, optVars, connVars, l2Vars, apiVars>>
otherThanConn == <<sdkVars, optVars, gasVars, l2Vars, apiVars>>
otherThanL2 == <<sdkVars, optVars, gasVars, connVars, apiVars>>

Queues == {"user", "proposer", "challenger", "liquidityProvider"}
Subs == {"proposer", "challenger"}
BlockIds == 1..MaxBlocks

\* The jobs that wrap submitTransaction in try/catch and settle the promise
\* their caller holds.
WrappedKinds == {"wrapped", "commit", "reveal"}

Concurrency == 1

MsgTypes == {"block", "commit", "challenge", "instant"}

Min(a, b) == IF a < b THEN a ELSE b

NewTask(q, via, kind, blk) ==
  [q |-> q, via |-> via, kind |-> kind, blk |-> blk,
   phase |-> IF via = "direct" THEN "est" ELSE "waiting",
   prom |-> [state |-> "pending", value |-> "none"],
   evs |-> <<>>,
   caller |-> IF kind \in WrappedKinds THEN "pending" ELSE "na",
   emitted |-> "none", threw |-> FALSE, ended |-> FALSE,
   fn |-> "other", val |-> 0, inst |-> 1]

\* A settlement that overwrites an earlier one.
SettleAgain(p, state, value) == [state |-> state, value |-> value]

\* Promise settlement: only the first resolve or reject takes effect.
Settle(p, state, value) ==
  IF p.state = "pending" THEN [state |-> state, value |-> value] ELSE p

\* Queue.start() of a queue made without `concurrency: 1` (the package's
\* default is Infinity): every waiting job is called.
QueueStartUnbounded(js, pd, ts) ==
  [jobs |-> <<>>,
   pending |-> pd + Len(js),
   tasks |-> [i \in DOMAIN ts |->
                IF \E n \in DOMAIN js : js[n] = i
                  THEN [ts[i] EXCEPT !.phase = "est"] ELSE ts[i]]]

\* The start() of queues that would be kept per Nf3 instance: the oldest
\* waiting job of every instance that has no job running is called.
QueueStartPerInstance(js, pd, ts) ==
  LET busy == {ts[i].inst : i \in {k \in DOMAIN ts :
                 /\ js # <<>>
                 /\ ts[k].via = "queue"
                 /\ ts[k].q = ts[js[1]].q
                 /\ ts[k].phase \in {"est", "sent"}}}
      go == {js[n] : n \in {m \in DOMAIN js :
               /\ ts[js[m]].inst \notin busy
               /\ \A l \in 1..(m - 1) : ts[js[l]].inst # ts[js[m]].inst}}
      Stays(j) == j \notin go
  IN [jobs |-> SelectSeq(js, Stays),
      pending |-> pd + Cardinality(go),
      tasks |-> [i \in DOMAIN ts |->
                   IF i \in go THEN [ts[i] EXCEPT !.phase = "est"] ELSE ts[i]]]

\* The start() of one queue for all roles: no job is called while a job of
\* any queue runs.
QueueStartOneForAll(js, pd, ts) ==
  LET free == \A i \in DOMAIN ts :
                ts[i].via = "queue" => ts[i].phase \notin {"est", "sent"}
      k == IF pd >= Concurrency \/ ~free
             THEN 0 ELSE Min(Concurrency - pd, Len(js))
      go == {js[n] : n \in 1..k}
  IN [jobs |-> SubSeq(js, k + 1, Len(js)),
      pending |-> pd + k,
      tasks |-> [i \in DOMAIN ts |->
                   IF i \in go THEN [ts[i] EXCEPT !.phase = "est"] ELSE ts[i]]]

\* A start() that takes the newest waiting jobs instead of the oldest.
QueueStartNewest(js, pd, ts) ==
  LET k == IF pd >= Concurrency THEN 0 ELSE Min(Concurrency - pd, Len(js))
      go == {js[n] : n \in (Len(js) - k + 1)..Len(js)}
  IN [jobs |-> SubSeq(js, 1, Len(js) - k),
      pending |-> pd + k,
      tasks |-> [i \in DOMAIN ts |->
                   IF i \in go THEN [ts[i] EXCEPT !.phase = "est"] ELSE ts[i]]]

\* Queue.start(): while fewer than `concurrency` jobs run and jobs wait,
\* shift the head job and call it.  js: waiting jobs, pd: pending, ts: tasks.
QueueStart(js, pd, ts) ==
  LET k == IF pd >= Concurrency THEN 0 ELSE Min(Concurrency - pd, Len(js))
      go == {js[n] : n \in 1..k}
  IN [jobs |-> SubSeq(js, k + 1, Len(js)),
      pending |-> pd + k,
      tasks |-> [i \in DOMAIN ts |->
                   IF i \in go THEN [ts[i] EXCEPT !.phase = "est"] ELSE ts[i]]]

\* A push that calls the job at once instead of queueing it.
QueuePushCalls(q, t) ==
  /\ Len(tasks) < MaxTasks
  /\ tasks' = Append(tasks, [t EXCEPT !.phase = "est"])
  /\ UNCHANGED <<jobs, pending>>

\* Queue.push(job) with autostart: append, then start().
QueuePush(q, t) ==
  LET ts == Append(tasks, t)
      r == QueueStart(Append(jobs[q], Len(ts)), pending[q], ts)
  IN /\ Len(tasks) < MaxTasks
     /\ tasks' = r.tasks
     /\ jobs' = [jobs EXCEPT ![q] = r.jobs]
     /\ pending' = [pending EXCEPT ![q] = r.pending]

\* Queue's next(err), called when the running job's promise settles:
\* pending--, then emit 'error' (err) or 'success'.  Queue is an EventEmitter
\* and nothing listens to its 'error' event, so that emit throws and the
\* start() that follows it in next() is not reached.
QueueNext(js, pd, ts, err) ==
  IF err THEN [jobs |-> js, pending |-> pd - 1, tasks |-> ts]
  ELSE QueueStart(js, pd - 1, ts)

\* Queue's next(), after the emit: done(), which emits 'end', is called when
\* pending === 0 && jobs.length === 0; the throwing emit of 'error' is not
\* followed by it.  js, pd: the queue when the job's promise settles.
QueueDone(js, pd, err) == ~err /\ pd - 1 = 0 /\ js = <<>>

\* Whether the promise a job returns to the queue rejects, given the state of
\* the promise submitTransaction returned to it.
\*   approve: () => { return this.submitTransaction(...) }
\*   block:   catch (err) { emitter.emit('error', ...) } throws when the
\*            emitter has no 'error' listener
\*   others:  try { resolve(receipt) } catch (err) { reject(err) } never rejects
JobRejects(kind, state, heard) ==
  CASE kind = "approve" -> state = "rejected"
    [] kind = "block" -> state = "rejected" /\ ~heard
    [] OTHER -> FALSE

SdkInit ==
  /\ tasks = <<>>
  /\ jobs = [q \in Queues |-> <<>>]
  /\ pending = [q \in Queues |-> 0]
  /\ deposits = <<>>
  /\ rx = [s \in Subs |-> [type \in MsgTypes |-> 0]]
  /\ engine = [b \in BlockIds |-> "none"]
  /\ chainCommit = [b \in BlockIds |-> "none"]
  /\ chainReveal = {}

\* registerProposer, deregisterProposer, changeCurrentProposer, withdrawBond,
\* updateProposer (proposer queue); transfer, withdraw, finaliseWithdrawal,
\* requestInstantWithdrawal (user queue); advanceInstantWithdrawal
\* (liquidity-provider queue): one wrapped job.
ApiPush(q) ==
  /\ q \in {"user", "proposer", "liquidityProvider"}
  /\ QueuePush(q, NewTask(q, "queue", "wrapped", 0))
  /\ UNCHANGED <<otherThanSdk, deposits, rx, engine, chainCommit,
                 chainReveal>>

\* The deposit() calls that await the client's answer to /deposit.
Awaiting == {c \in DOMAIN deposits : deposits[c].deposit = 0}

\* One of the methods of ApiPush, called on the Nf3 instance inst: the
\* queues are the module's, whichever instance pushes.
InstancePush(inst, q) ==
  /\ q \in {"user", "proposer", "liquidityProvider"}
  /\ QueuePush(q, [NewTask(q, "queue", "wrapped", 0) EXCEPT !.inst = inst])
  /\ UNCHANGED <<otherThanSdk, deposits, rx, engine, chainCommit,
                 chainReveal>>

\* deposit(), up to its await of the client's /deposit: the approval job is
\* pushed when approve() returned a transaction to sign.
DepositApprove(needed, v) ==
  /\ Cardinality(Awaiting) < MaxDeposits
  /\ Len(deposits) < MaxTasks
  /\ deposits' = Append(deposits,
                        [value |-> v, deposit |-> 0,
                         approval |-> IF needed THEN Len(tasks) + 1 ELSE 0])
  /\ IF needed
       THEN QueuePush("user", NewTask("user", "queue", "approve", 0))
       ELSE UNCHANGED <<tasks, jobs, pending>>
  /\ UNCHANGED <<otherThanSdk, rx, engine, chainCommit, chainReveal>>

\* deposit() of call c, after the client answered: the deposit job is
\* pushed.
DepositPush(c) ==
  /\ c \in Awaiting
  /\ deposits' = [deposits EXCEPT ![c].deposit = Len(tasks) + 1]
  /\ QueuePush("user", [NewTask("user", "queue", "wrapped", 0)
                          EXCEPT !.fn = "deposit",
                                 !.val = deposits[c].value])
  /\ UNCHANGED <<otherThanSdk, rx, engine, chainCommit, chainReveal>>

JobTypes(s) == IF s = "proposer" THEN {"block"} ELSE {"commit", "challenge"}

RECURSIVE Sum(_, _)
Sum(f, S) == IF S = {} THEN 0
             ELSE LET x == CHOOSE x \in S : TRUE IN f[x] + Sum(f, S \ {x})

\* The messages received so far that the subscriptions do not act on.
Ignored == Sum([s \in Subs |-> Sum(rx[s], MsgTypes \ JobTypes(s))], Subs)

Receive(s, type) == rx' = [rx EXCEPT ![s][type] = @ + 1]

\* An onmessage that pushes a job whatever the message's type.
ProposerOnMessageAny(type, blk) ==
  QueuePush("proposer", NewTask("proposer", "queue", "block", blk))

\* startProposer's connection.onmessage.
ProposerOnMessage(type, blk) ==
  IF type = "block"
    THEN QueuePush("proposer", NewTask("proposer", "queue", "block", blk))
    ELSE UNCHANGED <<tasks, jobs, pending>>

\* startChallenger's connection.onmessage.
ChallengerOnMessage(type, blk) ==
  LET kind == IF type = "commit" THEN "commit" ELSE "reveal"
  IN IF type = "commit" \/ type = "challenge"
       THEN QueuePush("challenger",
                      NewTask("challenger", "queue", kind, blk))
       ELSE UNCHANGED <<tasks, jobs, pending>>

\* The optimist sends the next block to propose.
ProposerBlock ==
  /\ Receive("proposer", "block")
  /\ ProposerOnMessage("block", rx["proposer"]["block"] + 1)
  /\ UNCHANGED <<otherThanSdk, deposits, engine, chainCommit,
                 chainReveal>>

\* A message of another type arrives on the proposer's subscription.
ProposerOther(type) ==
  /\ type \in {"commit", "challenge", "instant"}
  /\ Ignored < MaxOther
  /\ Receive("proposer", type)
  /\ ProposerOnMessage(type, 0)
  /\ UNCHANGED <<otherThanSdk, deposits, engine, chainCommit,
                 chainReveal>>

\* A message the challenge engine does not send on fault detection or commit.
ChallengerOther(type) ==
  /\ type \in {"block", "instant"}
  /\ Ignored < MaxOther
  /\ Receive("challenger", type)
  /\ ChallengerOnMessage(type, 0)
  /\ UNCHANGED <<otherThanSdk, deposits, engine, chainCommit,
                 chainReveal>>

\* ChallengeEngine: a fault is detected in block b; the commit payload is sent.
EngineDetect(b) ==
  /\ engine[b] = "none"
  /\ engine' = [engine EXCEPT ![b] = "Detected"]
  /\ Receive("challenger", "commit")
  /\ ChallengerOnMessage("commit", b)
  /\ UNCHANGED <<otherThanSdk, deposits, chainCommit, chainReveal>>

\* The reveal payload sent without the commit's confirmation.
EngineRevealsUnconfirmed(b) ==
  /\ engine[b] = "Detected"
  /\ engine' = [engine EXCEPT ![b] = "Committed"]
  /\ Receive("challenger", "challenge")
  /\ ChallengerOnMessage("challenge", b)
  /\ UNCHANGED <<otherThanSdk, deposits, chainCommit, chainReveal>>

\* The reveal payload sent once any commit for the block is on-chain.
EngineRevealsAfterAnyCommit(b) ==
  /\ engine[b] = "Detected"
  /\ chainCommit[b] # "none"
  /\ engine' = [engine EXCEPT ![b] = "Committed"]
  /\ Receive("challenger", "challenge")
  /\ ChallengerOnMessage("challenge", b)
  /\ UNCHANGED <<otherThanSdk, deposits, chainCommit, chainReveal>>

\* ChallengeEngine: this node's commit is confirmed on-chain; the reveal
\* payload is sent.
EngineCommitted(b) ==
  /\ engine[b] = "Detected"
  /\ chainCommit[b] = "self"
  /\ engine' = [engine EXCEPT ![b] = "Committed"]
  /\ Receive("challenger", "challenge")
  /\ ChallengerOnMessage("challenge", b)
  /\ UNCHANGED <<otherThanSdk, deposits, chainCommit, chainReveal>>

\* A rival challenger's commit for block b gets on-chain first.
RivalCommit(b) ==
  /\ chainCommit[b] = "none"
  /\ chainCommit' = [chainCommit EXCEPT ![b] = "rival"]
  /\ UNCHANGED <<otherThanSdk, tasks, jobs, pending, deposits, rx, engine,
                 chainReveal>>

Directs == {i \in DOMAIN tasks : tasks[i].via = "direct"}

\* A caller calls submitTransaction itself, with the key of `role`.
DirectSubmit(role) ==
  /\ Len(tasks) < MaxTasks
  /\ Cardinality(Directs) < MaxDirect
  /\ tasks' = Append(tasks, NewTask(role, "direct", "direct", 0))
  /\ UNCHANGED <<otherThanSdk, jobs, pending, deposits, rx, engine,
                 chainCommit, chainReveal>>

\* submitTransaction, from its start to sendSignedTransaction: the gas price
\* and the gas limit are estimated, the transaction is signed and sent.
Send(i) ==
  /\ i \in DOMAIN tasks
  /\ tasks[i].phase = "est"
  /\ tasks' = [tasks EXCEPT ![i].phase = "sent"]
  /\ UNCHANGED <<otherThanSdk, jobs, pending, deposits, rx, engine,
                 chainCommit, chainReveal>>

\* The handlers submitTransaction registers on the sent transaction:
\* .once('receipt', resolve(receipt)) and .on('error', reject(err)).
OnEvent(t, ev) ==
  LET p == IF ev = "receipt"
             THEN IF \E n \in DOMAIN t.evs : t.evs[n] = "receipt"
                    THEN t.prom
                    ELSE Settle(t.prom, "resolved", "receipt")
             ELSE Settle(t.prom, "rejected", "error")
  IN [t EXCEPT !.prom = p, !.evs = Append(@, ev)]

\* A wrapped job whose catch resolves its caller's promise.
FinishCatchResolves(t, heard) ==
  [t EXCEPT !.phase = "done",
            !.caller = IF t.kind \in WrappedKinds THEN "resolved" ELSE @,
            !.emitted = IF t.kind = "block"
                          THEN (IF t.prom.state = "resolved"
                                  THEN "receipt" ELSE "error")
                          ELSE @,
            !.threw = JobRejects(t.kind, t.prom.state, heard)]

\* What the awaiting job does when submitTransaction's promise has settled.
Finish(t, heard) ==
  [t EXCEPT !.phase = "done",
            !.caller = IF t.kind \in WrappedKinds THEN t.prom.state ELSE @,
            !.emitted = IF t.kind = "block"
                          THEN (IF t.prom.state = "resolved"
                                  THEN "receipt" ELSE "error")
                          ELSE @,
            !.threw = JobRejects(t.kind, t.prom.state, heard)]

\* The chain accepts a commit for a block only while none is recorded; it
\* reverts a finalise-withdrawal sent before the challenge window of the
\* block has elapsed and accepts it afterwards; it reverts a deposit above
\* the token's deposit limit.
ChainAllows(t, ev) ==
  /\ ev = "receipt" /\ t.kind = "commit" => chainCommit[t.blk] = "none"
  /\ t.fn = "finaliseWithdrawal" => (ev = "receipt" <=> windowElapsed)
  /\ ev = "receipt" /\ t.fn = "deposit" => t.val <= restriction.deposit

\* The first event of a sent transaction: the promise settles, the job
\* finishes and the queue goes on.
ChainEvent(i, ev, heard) ==
  /\ i \in DOMAIN tasks
  /\ tasks[i].phase = "sent"
  /\ ChainAllows(tasks[i], ev)
  /\ heard => tasks[i].kind = "block" /\ ev = "error"
  /\ LET f == Finish(OnEvent(tasks[i], ev), heard)
         q == f.q
         t == [f EXCEPT !.ended =
                 f.via = "queue"
                   /\ QueueDone(jobs[q], pending[q],
                                JobRejects(f.kind, f.prom.state, heard))]
         ts == [tasks EXCEPT ![i] = t]
         r == QueueNext(jobs[q], pending[q], ts,
                        JobRejects(t.kind, t.prom.state, heard))
     IN IF t.via = "direct"
          THEN /\ tasks' = ts
               /\ UNCHANGED <<jobs, pending>>
          ELSE /\ tasks' = r.tasks
               /\ jobs' = [jobs EXCEPT ![q] = r.jobs]
               /\ pending' = [pending EXCEPT ![q] = r.pending]
  /\ chainCommit' = IF ev = "receipt" /\ tasks[i].kind = "commit"
                      THEN [chainCommit EXCEPT ![tasks[i].blk] = "self"]
                      ELSE chainCommit
  /\ chainReveal' = IF ev = "receipt" /\ tasks[i].kind = "reveal"
                      THEN chainReveal \cup {tasks[i].blk}
                      ELSE chainReveal
  /\ UNCHANGED <<otherThanSdk, deposits, rx, engine>>

Late == Sum([k \in DOMAIN tasks |-> IF tasks[k].evs = <<>> THEN 0
                                     ELSE Len(tasks[k].evs) - 1], DOMAIN tasks)

\* A further event of a transaction whose promise has settled.
LateEvent(i, ev) ==
  /\ i \in DOMAIN tasks
  /\ tasks[i].phase = "done"
  /\ Late < MaxLate
  /\ tasks' = [tasks EXCEPT ![i] = OnEvent(@, ev)]
  /\ UNCHANGED <<otherThanSdk, jobs, pending, deposits, rx, engine,
                 chainCommit, chainReveal>>

Events == {"receipt", "error"}

\* The calls and messages that push jobs, and the progress of the jobs.
CoreNext ==
  \/ \E q \in Queues : ApiPush(q)
  \/ \E needed \in BOOLEAN : Awaiting = {} /\ DepositApprove(needed, 1)
  \/ \E c \in 1..MaxTasks : DepositPush(c)
  \/ ProposerBlock
  \/ \E b \in BlockIds : EngineDetect(b)
  \/ \E b \in BlockIds : EngineCommitted(b)
  \/ \E b \in BlockIds : RivalCommit(b)
  \/ \E i \in 1..MaxTasks : Send(i)
  \/ \E i \in 1..MaxTasks, ev \in Events, heard \in BOOLEAN :
       ChainEvent(i, ev, heard)

\* Several Nf3 instances in one process, their submissions and the chain.
Instances == 1..MaxInstances

SharedNext ==
  \/ \E inst \in Instances, q \in Queues : InstancePush(inst, q)
  \/ \E i \in 1..MaxTasks : Send(i)
  \/ \E i \in 1..MaxTasks, ev \in Events : ChainEvent(i, ev, FALSE)

\* ------------------------------------------------- SDK: the user's calls
StatusOk == 200

TokenAmounts == {MaxAmount - 3, MaxAmount}

\* A division that rounds up.
DepositLimitRoundsUp(amount) == (amount + 3) \div 4

\* BigInt(token.amount) / BigInt(4)
DepositLimit(amount) == amount \div 4

\* restrictions.setRestriction(token.address, deposit limit, token.amount)
setRestriction(amount) ==
  [deposit |-> DepositLimit(amount), withdraw |-> amount]

ApiIdle ==
  /\ calls = <<>>
  /\ windowElapsed = FALSE
  /\ restriction = setRestriction(4 * MaxValue)

\* The deployment has restricted the token to one of the amounts.
ApiInit ==
  /\ calls = <<>>
  /\ windowElapsed = FALSE
  /\ restriction \in {setRestriction(a) : a \in TokenAmounts}

\* The record of a call: whether the client refused it, what it returned
\* ("status": the HTTP status of the client's answer, "promise": the promise
\* the pushed job settles, "null", "threw") and the task of the job it
\* pushed (0: none).
Returned(fn, offchain, refused, ret, status, task) ==
  [fn |-> fn, offchain |-> offchain, refused |-> refused, ret |-> ret,
   status |-> status, task |-> task]

\* The push of the wrapped job of fn on the user queue.
PushUserJob(fn) ==
  QueuePush("user", [NewTask("user", "queue", "wrapped", 0) EXCEPT !.fn = fn])

\* An end of transfer and withdraw that pushes the job whatever `offchain`
\* is.
OnOrOffChainPushes(fn, offchain) ==
  /\ PushUserJob(fn)
  /\ calls' = Append(calls,
                     IF ~offchain
                       THEN Returned(fn, offchain, FALSE, "promise", 0,
                                     Len(tasks) + 1)
                       ELSE Returned(fn, offchain, FALSE, "status",
                                     StatusOk, 0))

\* The common end of transfer and withdraw:
\*   if (!offchain) return new Promise(... userQueue.push(job) ...);
\*   return res.status;
OnOrOffChain(fn, offchain) ==
  IF ~offchain
    THEN /\ PushUserJob(fn)
         /\ calls' = Append(calls, Returned(fn, offchain, FALSE, "promise",
                                            0, Len(tasks) + 1))
    ELSE /\ calls' = Append(calls, Returned(fn, offchain, FALSE, "status",
                                            StatusOk, 0))
         /\ UNCHANGED <<tasks, jobs, pending>>

\* transfer(offchain, ...): it throws when the client found no suitable
\* commitments.
Transfer(offchain, error) ==
  /\ Len(calls) < MaxCalls
  /\ IF error
       THEN /\ calls' = Append(calls, Returned("transfer", offchain, TRUE,
                                               "threw", 0, 0))
            /\ UNCHANGED <<tasks, jobs, pending>>
       ELSE OnOrOffChain("transfer", offchain)
  /\ UNCHANGED <<otherThanUser, deposits, rx, engine, chainCommit,
                 chainReveal, windowElapsed, restriction>>

\* withdraw(offchain, ...)
Withdraw(offchain) ==
  /\ Len(calls) < MaxCalls
  /\ OnOrOffChain("withdraw", offchain)
  /\ UNCHANGED <<otherThanUser, deposits, rx, engine, chainCommit,
                 chainReveal, windowElapsed, restriction>>

\* finaliseWithdrawal(hash) of a withdrawal that is in a block.
FinaliseWithdrawal ==
  /\ PushUserJob("finaliseWithdrawal")
  /\ UNCHANGED <<otherThanSdk, deposits, rx, engine, chainCommit,
                 chainReveal>>

\* A requestInstantWithdrawal that pushes its job before it asks the client.
RequestInstantWithdrawalPushesFirst(inBlock) ==
  /\ Len(calls) < MaxCalls
  /\ PushUserJob("requestInstantWithdrawal")
  /\ calls' = Append(calls,
                     IF inBlock
                       THEN Returned("requestInstantWithdrawal", FALSE,
                                     FALSE, "promise", 0, Len(tasks) + 1)
                       ELSE Returned("requestInstantWithdrawal", FALSE,
                                     TRUE, "null", 0, 0))
  /\ UNCHANGED <<otherThanUser, deposits, rx, engine, chainCommit,
                 chainReveal, windowElapsed, restriction>>

\* requestInstantWithdrawal(hash, fee): the client refuses a withdrawal that
\* does not exist or is in no block yet, axios.post throws and the catch
\* returns null.
RequestInstantWithdrawal(inBlock) ==
  /\ Len(calls) < MaxCalls
  /\ IF inBlock
       THEN /\ PushUserJob("requestInstantWithdrawal")
            /\ calls' = Append(calls,
                               Returned("requestInstantWithdrawal", FALSE,
                                        FALSE, "promise", 0,
                                        Len(tasks) + 1))
       ELSE /\ calls' = Append(calls,
                               Returned("requestInstantWithdrawal", FALSE,
                                        TRUE, "null", 0, 0))
            /\ UNCHANGED <<tasks, jobs, pending>>
  /\ UNCHANGED <<otherThanUser, deposits, rx, engine, chainCommit,
                 chainReveal, windowElapsed, restriction>>

\* web3Client.timeJump past the challenge period.
TimeJump ==
  /\ ~windowElapsed
  /\ windowElapsed' = TRUE
  /\ UNCHANGED <<sdkVars, otherThanUser, calls, restriction>>

\* The user's calls, the submissions and the chain.
UserNext ==
  \/ \E offchain, error \in BOOLEAN : Transfer(offchain, error)
  \/ \E offchain \in BOOLEAN : Withdraw(offchain)
  \/ FinaliseWithdrawal
  \/ \E inBlock \in BOOLEAN : RequestInstantWithdrawal(inBlock)
  \/ TimeJump
  \/ \E i \in 1..MaxTasks : Send(i)
  \/ \E i \in 1..MaxTasks, ev \in Events : ChainEvent(i, ev, FALSE)

\* The deposit() calls, their submissions and the chain.
DepositNext ==
  \/ \E needed \in BOOLEAN, v \in 1..MaxValue : DepositApprove(needed, v)
  \/ \E c \in 1..MaxTasks : DepositPush(c)
  \/ \E i \in 1..MaxTasks : Send(i)
  \/ \E i \in 1..MaxTasks, ev \in Events : ChainEvent(i, ev, FALSE)

\* --------------------------------------------------------------- optimist
\* The proposers: two identities of this node and a proposer of another node.
Proposers == {"self", "self2", "other"}
Local == {"self", "self2"}

\* Proposer.isSelf of the current proposer: this node is the proposer.
isSelf == \E p \in Proposers : selfOf[p]

TRANSACTIONS_PER_BLOCK == 2

OptInit ==
  /\ pc = "new"
  /\ wsSubs = {}
  /\ sync = "idle"
  /\ listening = FALSE
  /\ mirror \in 0..MaxChain
  /\ chainN \in mirror..MaxChain
  /\ badBlock \in {0} \cup ((mirror + 1)..chainN)
  /\ eventQueueStarted = FALSE
  /\ makeBlockStarted = FALSE
  /\ evq = <<>>
  /\ selfOf = [p \in Proposers |-> FALSE]
  /\ pool = <<>>
  /\ txCount = 0
  /\ assembled = <<>>
  /\ makeNow = FALSE
  /\ proposal = <<>>
  /\ outcomes = <<>>
  /\ marked = <<>>
  /\ challenges = 0
  /\ applied = <<>>
  /\ rerun = "none"
  /\ registered = FALSE

OptIdle ==
  /\ OptInit
  /\ mirror = 0
  /\ chainN = 0

\* The callback called without waiting for initialBlockSync's promise.
CalledAtOnce(s) == TRUE

\* The callback called when the promise is settled, fulfilled or rejected.
Settled(s) == s \in {"ready", "failed"}

\* initialBlockSync(proposer).then(...): the callback runs when the promise
\* is fulfilled.
Fulfilled(s) == s = "ready"

\* The callback of main(): startEventQueue(...); conditionalMakeBlock(proposer).
\* s is the synchronizer's new state.
Then(s) ==
  IF Fulfilled(s)
    THEN eventQueueStarted' = TRUE /\ makeBlockStarted' = TRUE
    ELSE UNCHANGED <<eventQueueStarted, makeBlockStarted>>

\* await subscribeToBlockAssembledWebSocketConnection(...)
SubscribeBlockAssembled ==
  /\ pc = "new"
  /\ pc' = "sub1"
  /\ wsSubs' = wsSubs \cup {"blockAssembled"}
  /\ UNCHANGED <<otherThanOpt, nodeVars, asmVars, challenges, applied, sync,
                 listening, mirror, chainN, badBlock, eventQueueStarted,
                 makeBlockStarted, evq, selfOf, pool, txCount, assembled,
                 makeNow>>

\* A main() that goes on before the challenge subscription is made.
SubscribeChallengeNotAwaited ==
  /\ pc = "sub1"
  /\ pc' = "sub2"
  /\ UNCHANGED <<otherThanOpt, nodeVars, asmVars, challenges, applied, sync,
                 listening, mirror, chainN, badBlock, eventQueueStarted,
                 makeBlockStarted, evq, selfOf, pool, txCount, assembled,
                 makeNow, wsSubs>>

\* await subscribeToChallengeWebSocketConnection(...)
SubscribeChallenge ==
  /\ pc = "sub1"
  /\ pc' = "sub2"
  /\ wsSubs' = wsSubs \cup {"challenge"}
  /\ UNCHANGED <<otherThanOpt, nodeVars, asmVars, challenges, applied, sync,
                 listening, mirror, chainN, badBlock, eventQueueStarted,
                 makeBlockStarted, evq, selfOf, pool, txCount, assembled,
                 makeNow>>

\* A subscription throws: catch (err) { logger.error(err); process.exit(1) }
MainFail ==
  /\ pc \in {"new", "sub1"}
  /\ pc' = "exit"
  /\ UNCHANGED <<otherThanOpt, nodeVars, asmVars, challenges, applied,
                 wsSubs, sync, listening, mirror, chainN, badBlock,
                 eventQueueStarted, makeBlockStarted, evq, selfOf, pool,
                 txCount, assembled, makeNow>>

\* initialBlockSync(proposer) is called and its promise is given the callback.
StartSync ==
  /\ pc = "sub2"
  /\ pc' = "sync"
  /\ sync' = "running"
  /\ Then(sync')
  /\ UNCHANGED <<otherThanOpt, nodeVars, asmVars, challenges, applied, wsSubs,
                 listening, mirror, chainN, badBlock, evq, selfOf, pool,
                 txCount, assembled, makeNow>>

\* app.listen(80)
Listen ==
  /\ pc = "sync"
  /\ pc' = "done"
  /\ listening' = TRUE
  /\ UNCHANGED <<otherThanOpt, nodeVars, asmVars, challenges, applied,
                 wsSubs, sync, mirror, chainN, badBlock, eventQueueStarted,
                 makeBlockStarted, evq, selfOf, pool, txCount, assembled,
                 makeNow>>

Alive == pc # "exit"

\* A synchronizer that fetches the chain's latest block first.
NextMissingLatest == chainN

\* StateSynchronizer: the block to fetch next, in ascending order.
NextMissing == mirror + 1

\* A synchronizer that, run again, fetches the chain's last block although
\* the mirror holds it.
MissingOnRerun ==
  mirror < chainN \/ (rerun = "running" /\ mirror = chainN /\ chainN > 0)

\* StateSynchronizer: while mirrored count < authoritative count.
Missing == mirror < chainN

\* StateSynchronizer: the next missing block is fetched, validated against
\* the mirror and applied; a block that does not validate is a consistency
\* fault.
SyncBlock ==
  /\ Alive
  /\ sync = "running" \/ rerun = "running"
  /\ Missing
  /\ IF NextMissing = badBlock
       THEN sync' = "failed" /\ UNCHANGED <<mirror, applied>>
       ELSE /\ mirror' = mirror + 1
            /\ applied' = Append(applied, NextMissing)
            /\ UNCHANGED sync
  /\ Then(sync')
  /\ UNCHANGED <<otherThanOpt, nodeVars, asmVars, challenges, pc, wsSubs,
                 listening, chainN, badBlock, evq, selfOf, pool, txCount,
                 assembled, makeNow>>

\* StateSynchronizer: the mirrored count equals the chain's; ready.
SyncReady ==
  /\ Alive
  /\ sync = "running"
  /\ ~Missing
  /\ sync' = "ready"
  /\ Then(sync')
  /\ UNCHANGED <<otherThanOpt, nodeVars, asmVars, challenges, applied, pc,
                 wsSubs, listening, mirror, chainN, badBlock, evq, selfOf,
                 pool, txCount, assembled, makeNow>>

\* StateSynchronizer, run again while the node is running: the counts are
\* fetched anew.
Resync ==
  /\ Alive
  /\ sync = "ready"
  /\ rerun = "none"
  /\ rerun' = "running"
  /\ UNCHANGED <<otherThanOpt, registered, asmVars, challenges, applied, pc,
                 wsSubs, sync, listening, mirror, chainN, badBlock,
                 eventQueueStarted, makeBlockStarted, evq, selfOf, pool,
                 txCount, assembled, makeNow>>

\* StateSynchronizer: the later run finds the mirrored count equal to the
\* chain's and completes.
ResyncDone ==
  /\ Alive
  /\ rerun = "running"
  /\ ~Missing
  /\ rerun' = "done"
  /\ UNCHANGED <<otherThanOpt, registered, asmVars, challenges, applied, pc,
                 wsSubs, sync, listening, mirror, chainN, badBlock,
                 eventQueueStarted, makeBlockStarted, evq, selfOf, pool,
                 txCount, assembled, makeNow>>

OptEvents == {"rotationSelf", "rotationSelf2", "rotationOther",
              "deregistered", "transaction", "faultyBlock"}

\* The rotation notifications and the proposer each names.
Rotations == {"rotationSelf", "rotationSelf2", "rotationOther"}

Named(e) == CASE e = "rotationSelf" -> "self"
              [] e = "rotationSelf2" -> "self2"
              [] OTHER -> "other"

\* A rotation handler that flags the named proposer and leaves the other
\* records as they are.
RotatedKeepsOld(flags, p) == [flags EXCEPT ![p] = p \in Local]

\* ProposerCoordinator, on a rotation notification naming proposer p: only
\* the record of p can be flagged isSelf, and only if p is this node.
Rotated(flags, p) == [q \in Proposers |-> q = p /\ p \in Local]

\* The chain emits a notification the event queue will process.
Notify(e) ==
  /\ Alive
  /\ Len(evq) < MaxEvq
  /\ e = "transaction" => txCount < MaxTx
  /\ e = "faultyBlock" =>
       challenges + Cardinality({k \in DOMAIN evq : evq[k] = e}) < MaxFaulty
  /\ evq' = Append(evq, e)
  /\ txCount' = IF e = "transaction" THEN txCount + 1 ELSE txCount
  /\ UNCHANGED <<otherThanOpt, nodeVars, asmVars, challenges, applied, pc,
                 wsSubs, sync, listening, mirror, chainN, badBlock,
                 eventQueueStarted, makeBlockStarted, selfOf, pool,
                 assembled, makeNow>>

\* The event queue, once started, processes the oldest notification: a
\* rotation sets isSelf, a forced deregistration clears it, a transaction
\* joins the pool, a faulty block makes
\* the challenge engine raise a challenge.
ProcessEvent ==
  /\ Alive
  /\ eventQueueStarted
  /\ evq # <<>>
  /\ evq' = Tail(evq)
  /\ selfOf' = CASE Head(evq) \in Rotations ->
                         Rotated(selfOf, Named(Head(evq)))
                  [] Head(evq) = "deregistered" ->
                         [p \in Proposers |-> FALSE]
                  [] OTHER -> selfOf
  /\ pool' = IF Head(evq) = "transaction"
               THEN Append(pool, txCount - Cardinality(
                      {k \in DOMAIN evq : k > 1 /\ evq[k] = "transaction"}))
               ELSE pool
  /\ challenges' = IF Head(evq) = "faultyBlock" THEN challenges + 1
                   ELSE challenges
  /\ UNCHANGED <<otherThanOpt, nodeVars, asmVars, applied, pc, wsSubs, sync,
                 listening, mirror, chainN, badBlock, eventQueueStarted,
                 makeBlockStarted, txCount, assembled, makeNow>>

\* GET /block/make-now (Nf3.makeBlockNow)
HttpMakeNow ==
  /\ Alive
  /\ listening
  /\ ~makeNow
  /\ makeNow' = TRUE
  /\ UNCHANGED <<otherThanOpt, nodeVars, asmVars, challenges, applied, pc,
                 wsSubs, sync, listening, mirror, chainN, badBlock,
                 eventQueueStarted, makeBlockStarted, evq, selfOf, pool,
                 txCount, assembled>>

\* POST /proposer/register (Nf3.registerProposer) and POST
\* /proposer/registerlocally (Nf3.registerProposerLocally): the optimist
\* records the proposer as one of this node's.
HttpRegisterProposer ==
  /\ Alive
  /\ listening
  /\ ~registered
  /\ registered' = TRUE
  /\ UNCHANGED <<otherThanOpt, rerun, asmVars, challenges, applied, pc,
                 wsSubs, sync, listening, mirror, chainN, badBlock,
                 eventQueueStarted, makeBlockStarted, evq, selfOf, pool,
                 txCount, assembled, makeNow>>

\* POST /proposer/offchain-transaction (Nf3.sendOffchainTransaction)
HttpOffchainTransaction ==
  /\ Alive
  /\ listening
  /\ txCount < MaxTx
  /\ txCount' = txCount + 1
  /\ pool' = Append(pool, txCount + 1)
  /\ UNCHANGED <<otherThanOpt, nodeVars, asmVars, challenges, applied, pc,
                 wsSubs, sync, listening, mirror, chainN, badBlock,
                 eventQueueStarted, makeBlockStarted, evq, selfOf, assembled,
                 makeNow>>

\* MerkleMirror's append rule: the new root is hash(old root, that block's
\* transactions); a block stands for its transactions.
hash(root, b) == (root * 31 + b) % 1009

\* The root after a sequence of blocks was appended to an empty mirror.
RECURSIVE RootOf(_)
RootOf(blocks) ==
  IF blocks = <<>> THEN 0
  ELSE hash(RootOf(SubSeq(blocks, 1, Len(blocks) - 1)), blocks[Len(blocks)])

\* The chain's root as of its block n.
ChainRoot(n) == RootOf([k \in 1..n |-> k])

\* The mirror's root: the blocks it held when the synchronizer started,
\* then the blocks the synchronizer applied.
MirrorRoot == RootOf([k \in 1..(mirror - Len(applied)) |-> k] \o applied)

\* ProposerCoordinator.mayPropose()
mayPropose == isSelf /\ sync = "ready"

\* A block is due whoever the current proposer is.
MakeBlockDueAnyone == Len(pool) >= TRANSACTIONS_PER_BLOCK \/ makeNow

\* BlockAssembler: while this node is the proposer, a block is due when the
\* pool holds TRANSACTIONS_PER_BLOCK transactions or make-now was signalled.
MakeBlockDue == isSelf /\ (Len(pool) >= TRANSACTIONS_PER_BLOCK \/ makeNow)

\* A block of the newest transactions of the pool.
BlockOfNewest(p) ==
  SubSeq(p, Len(p) - Min(Len(p), TRANSACTIONS_PER_BLOCK) + 1, Len(p))

\* BlockAssembler: a block holds the oldest transactions of the pool, in
\* pool order, TRANSACTIONS_PER_BLOCK of them at most.
BlockOf(p) == SubSeq(p, 1, Min(Len(p), TRANSACTIONS_PER_BLOCK))

\* An assembler that finds something to assemble in any pool.
NeverNothing(p) == FALSE

\* BlockAssembler: an empty pool leaves nothing to assemble.
NothingToAssemble(p) == p = <<>>

\* conditionalMakeBlock, once called: a due block is assembled from the
\* oldest transactions of the pool and handed over for submission, unless a
\* submission is under way; its transactions stay in the pool until the
\* block is proposed on-chain.
ConditionalMakeBlock ==
  /\ Alive
  /\ makeBlockStarted
  /\ MakeBlockDue
  /\ proposal = <<>>
  /\ Len(assembled) < MaxAssembled
  /\ IF NothingToAssemble(pool)
       THEN UNCHANGED <<assembled, proposal>>
       ELSE /\ assembled' = Append(assembled, BlockOf(pool))
            /\ proposal' = BlockOf(pool)
  /\ makeNow' = FALSE
  /\ UNCHANGED <<otherThanOpt, nodeVars, pc, wsSubs, sync, listening, mirror,
                 chainN, badBlock, eventQueueStarted, makeBlockStarted, evq,
                 selfOf, pool, txCount, outcomes, marked, challenges,
                 applied>>

\* A failed submission that takes the block's transactions out of the pool.
ProposalFailedDrops ==
  /\ proposal # <<>>
  /\ outcomes' = Append(outcomes, "error")
  /\ proposal' = <<>>
  /\ pool' = SubSeq(pool, Len(proposal) + 1, Len(pool))
  /\ UNCHANGED <<otherThanOpt, nodeVars, pc, wsSubs, sync, listening, mirror,
                 chainN, badBlock, eventQueueStarted, makeBlockStarted, evq,
                 selfOf, txCount, assembled, makeNow, marked, challenges,
                 applied>>

\* BlockAssembler, failure: the submission of the block failed; the block is
\* not marked assembled and its transactions remain in the pool.
ProposalFailed ==
  /\ proposal # <<>>
  /\ outcomes' = Append(outcomes, "error")
  /\ proposal' = <<>>
  /\ UNCHANGED <<otherThanOpt, nodeVars, pc, wsSubs, sync, listening, mirror,
                 chainN, badBlock, eventQueueStarted, makeBlockStarted, evq,
                 selfOf, pool, txCount, assembled, makeNow, marked,
                 challenges, applied>>

\* The block's proposal is confirmed on-chain (blockProposed): the block is
\* marked assembled and its transactions leave the pool as included.
ProposalConfirmed ==
  /\ proposal # <<>>
  /\ outcomes' = Append(outcomes, "receipt")
  /\ marked' = Append(marked, proposal)
  /\ pool' = SubSeq(pool, Len(proposal) + 1, Len(pool))
  /\ proposal' = <<>>
  /\ UNCHANGED <<otherThanOpt, nodeVars, pc, wsSubs, sync, listening, mirror,
                 chainN, badBlock, eventQueueStarted, makeBlockStarted, evq,
                 selfOf, txCount, assembled, makeNow, challenges, applied>>

OptNext ==
  \/ SubscribeBlockAssembled
  \/ SubscribeChallenge
  \/ MainFail
  \/ StartSync
  \/ Listen
  \/ SyncBlock
  \/ SyncReady
  \/ \E e \in OptEvents : Notify(e)
  \/ ProcessEvent
  \/ HttpMakeNow
  \/ HttpRegisterProposer
  \/ HttpOffchainTransaction
  \/ ConditionalMakeBlock
  \/ ProposalFailed
  \/ ProposalConfirmed

\* The optimist's start-up and its synchronizer, run and run again, while the
\* HTTP routes receive transactions.
SyncNext ==
  \/ SubscribeBlockAssembled
  \/ SubscribeChallenge
  \/ MainFail
  \/ StartSync
  \/ Listen
  \/ SyncBlock
  \/ SyncReady
  \/ Resync
  \/ ResyncDone
  \/ HttpOffchainTransaction

\* --------------------------------------------------------- gas estimation
\* GAS, GAS_PRICE and the multipliers come from ./constants.mjs; the model
\* takes small values whose products need rounding.  A multiplier is the
\* fraction <<numerator, denominator>>.
GAS == 5
GAS_PRICE == 7
GAS_MULTIPLIER == <<3, 2>>
GAS_PRICE_MULTIPLIER == <<3, 2>>
GWEI == 1000000000

\* Number(undefined), and what arithmetic makes of it.
NaN == -1

\* Math.ceil(x * m), m the fraction m[1] / m[2]
CeilMul(x, m) ==
  IF x = NaN THEN NaN
  ELSE (x \div m[2]) * m[1] + ((x % m[2]) * m[1] + m[2] - 1) \div m[2]

\* The estimator's answers: no answer (the request throws), an answer
\* without result.ProposeGasPrice, or a price in Gwei.
EstimatorAnswers ==
  {[ok |-> FALSE, price |-> NaN], [ok |-> TRUE, price |-> NaN]}
    \cup {[ok |-> TRUE, price |-> g] : g \in 0..1}

\* The chain's answers to getGasPrice and to estimateGas.
ChainAnswers ==
  {[ok |-> FALSE, value |-> 0]}
    \cup {[ok |-> TRUE, value |-> w] : w \in 1..MaxWei}

GasIdle ==
  /\ gasIn = [estimator |-> [ok |-> FALSE, price |-> NaN],
              chainPrice |-> [ok |-> FALSE, value |-> 0],
              chainGas |-> [ok |-> FALSE, value |-> 0]]
  /\ gasPc = "idle"
  /\ gasAsked = {}
  /\ gasPrice = 0
  /\ gasLimit = 0
  /\ ethereumSigningKey = FALSE
  /\ sentVia = "none"

GasInit ==
  /\ gasIn \in [estimator : EstimatorAnswers, chainPrice : ChainAnswers,
                chainGas : ChainAnswers]
  /\ gasPc = "price"
  /\ gasAsked = {}
  /\ gasPrice = 0
  /\ gasLimit = 0
  /\ ethereumSigningKey \in BOOLEAN
  /\ sentVia = "none"

\* estimateGasPrice, the try block: the estimator is queried.
\* Number(res?.ProposeGasPrice) * 10 ** 9
PriceFromEstimator ==
  /\ gasPc = "price"
  /\ gasAsked' = gasAsked \cup {"estimator"}
  /\ IF gasIn.estimator.ok
       THEN /\ gasPrice' = CeilMul(IF gasIn.estimator.price = NaN THEN NaN
                                   ELSE gasIn.estimator.price * GWEI,
                                   GAS_PRICE_MULTIPLIER)
            /\ gasPc' = "limit"
       ELSE /\ gasPc' = "fallback"
            /\ UNCHANGED gasPrice
  /\ UNCHANGED <<otherThanGas, signVars, gasIn, gasLimit>>

\* A catch block that goes to GAS_PRICE without asking the chain.
PriceFallbackConstant ==
  /\ gasPc = "fallback"
  /\ gasPrice' = CeilMul(GAS_PRICE, GAS_PRICE_MULTIPLIER)
  /\ gasPc' = "limit"
  /\ UNCHANGED <<otherThanGas, signVars, gasIn, gasLimit, gasAsked>>

\* estimateGasPrice, the catch block: the chain's price, or GAS_PRICE.
PriceFallback ==
  /\ gasPc = "fallback"
  /\ gasAsked' = gasAsked \cup {"chain"}
  /\ gasPrice' = CeilMul(IF gasIn.chainPrice.ok THEN gasIn.chainPrice.value
                         ELSE GAS_PRICE, GAS_PRICE_MULTIPLIER)
  /\ gasPc' = "limit"
  /\ UNCHANGED <<otherThanGas, signVars, gasIn, gasLimit>>

\* An estimateGas that rounds down.
estimateGasFloor ==
  /\ gasPc = "limit"
  /\ gasLimit' = ((IF gasIn.chainGas.ok THEN gasIn.chainGas.value ELSE GAS)
                   * GAS_MULTIPLIER[1]) \div GAS_MULTIPLIER[2]
  /\ gasPc' = "built"
  /\ UNCHANGED <<otherThanGas, signVars, gasIn, gasAsked, gasPrice>>

\* estimateGas: the chain's estimate, or GAS.
estimateGas ==
  /\ gasPc = "limit"
  /\ gasLimit' = CeilMul(IF gasIn.chainGas.ok THEN gasIn.chainGas.value
                         ELSE GAS, GAS_MULTIPLIER)
  /\ gasPc' = "built"
  /\ UNCHANGED <<otherThanGas, signVars, gasIn, gasAsked, gasPrice>>

\* A send that never looks at the signing key.
SignAndSendUnsigned ==
  /\ gasPc = "built"
  /\ gasPc' = "sent"
  /\ sentVia' = "unsigned"
  /\ UNCHANGED <<otherThanGas, gasIn, gasAsked, gasPrice, gasLimit,
                 ethereumSigningKey>>

\* submitTransaction, after tx is built:
\*   if (this.ethereumSigningKey) { signTransaction; sendSignedTransaction }
\*   return this.web3.eth.sendTransaction(tx);
SignAndSend ==
  /\ gasPc = "built"
  /\ gasPc' = "sent"
  /\ sentVia' = IF ethereumSigningKey THEN "signed" ELSE "unsigned"
  /\ UNCHANGED <<otherThanGas, gasIn, gasAsked, gasPrice, gasLimit,
                 ethereumSigningKey>>

GasNext ==
  \/ PriceFromEstimator
  \/ PriceFallback
  \/ estimateGas
  \/ SignAndSend

\* ------------------------------------------------------------ connections
\* new ReconnectingWebSocket(url, [], { WebSocket }) takes the package's
\* defaults (reconnecting-websocket ^4.4.0): maxRetries Infinity,
\* minReconnectionDelay 1000 + Math.random() * 4000, maxReconnectionDelay
\* 10000, reconnectionDelayGrowFactor 1.3.
maxReconnectionDelay == 10000
reconnectionDelayGrowFactor == <<13, 10>>
MinDelays == {1000, 5000}

\* WEB3_PROVIDER_OPTIONS.reconnect
delay == 5000
maxAttempts == 120

\* A delay that does not grow with the retries.
GetNextDelayFixed(min, k) == IF k <= 0 THEN 0 ELSE min

\* ReconnectingWebSocket._getNextDelay with min the minimum delay, for
\* _retryCount = k: 0 for the first connection, then min, min * 1.3, ...
\* up to maxReconnectionDelay (truncated to whole ms).
RECURSIVE GetNextDelay(_, _)
GetNextDelay(min, k) ==
  IF k <= 0 THEN 0
  ELSE IF k = 1 THEN Min(min, maxReconnectionDelay)
  ELSE Min((GetNextDelay(min, k - 1) * reconnectionDelayGrowFactor[1])
             \div reconnectionDelayGrowFactor[2], maxReconnectionDelay)

\* No subscription and no provider.
ConnIdle ==
  /\ wsState = "closed"
  /\ retryCount = 0
  /\ minReconnectionDelay = 1000
  /\ delays = <<>>
  /\ handshakes = 0
  /\ handledHere = 0
  /\ timers = 0
  /\ probes = 0
  /\ missed = FALSE
  /\ pingThrew = FALSE
  /\ srv = 0
  /\ delivered = <<>>
  /\ handled = <<>>
  /\ w3State = "closed"
  /\ reconnectAttempts = 0
  /\ w3Delays = {}
  /\ w3Errors = 0

\* After setWeb3Provider and startProposer (startChallenger and the emitter
\* getters are alike): the provider is connected, the subscription's first
\* socket is being connected without delay.
ConnInit ==
  /\ wsState = "connecting"
  /\ retryCount = 0
  /\ minReconnectionDelay \in MinDelays
  /\ delays = <<>>
  /\ handshakes = 0
  /\ handledHere = 0
  /\ timers = 0
  /\ probes = 0
  /\ missed = FALSE
  /\ pingThrew = FALSE
  /\ srv = 0
  /\ delivered = <<>>
  /\ handled = <<>>
  /\ w3State = "open"
  /\ reconnectAttempts = 0
  /\ w3Delays = {}
  /\ w3Errors = 0

\* An onopen that sends the handshake on the first connection only.
OnOpenFirstOnly ==
  /\ wsState = "connecting"
  /\ wsState' = "open"
  /\ timers' = timers + 1
  /\ handshakes' = IF delays = <<>> THEN handshakes + 1 ELSE handshakes
  /\ UNCHANGED <<otherThanConn, minReconnectionDelay, retryCount, delays,
                 handledHere, probes, missed, pingThrew, srv, delivered,
                 handled, w3State, reconnectAttempts, w3Delays, w3Errors>>

\* An onopen that sets no ping timer.
OnOpenNoTimer ==
  /\ wsState = "connecting"
  /\ wsState' = "open"
  /\ handshakes' = handshakes + 1
  /\ UNCHANGED <<otherThanConn, minReconnectionDelay, retryCount, delays,
                 handledHere, timers, probes, missed, pingThrew, srv,
                 delivered, handled, w3State, reconnectAttempts, w3Delays,
                 w3Errors>>

\* ReconnectingWebSocket._handleOpen calls connection.onopen: a ping timer is
\* set and pushed on intervalIDs, the channel's handshake is sent.
OnOpen ==
  /\ wsState = "connecting"
  /\ wsState' = "open"
  /\ timers' = timers + 1
  /\ handshakes' = handshakes + 1
  /\ UNCHANGED <<otherThanConn, minReconnectionDelay, retryCount, delays,
                 handledHere, probes, missed, pingThrew, srv, delivered,
                 handled, w3State, reconnectAttempts, w3Delays, w3Errors>>

\* ReconnectingWebSocket._acceptOpen: the socket stayed open for minUptime.
AcceptOpen ==
  /\ wsState = "open"
  /\ retryCount # 0
  /\ retryCount' = 0
  /\ UNCHANGED <<otherThanConn, minReconnectionDelay, wsState, delays,
                 handshakes, handledHere, timers, probes, missed, pingThrew,
                 srv, delivered, handled, w3State, reconnectAttempts,
                 w3Delays, w3Errors>>

\* The socket closes, fails or does not open in time: _handleClose and
\* _handleError call _connect, which counts the retry and waits.
Disconnect ==
  /\ wsState \in {"connecting", "open"}
  /\ Len(delays) < MaxDrops
  /\ wsState' = "waiting"
  /\ retryCount' = retryCount + 1
  /\ delays' = Append(delays,
                    GetNextDelay(minReconnectionDelay, retryCount + 1))
  /\ UNCHANGED <<otherThanConn, minReconnectionDelay, handshakes,
                 handledHere, timers, probes, missed, pingThrew, srv,
                 delivered, handled, w3State, reconnectAttempts, w3Delays,
                 w3Errors>>

\* _connect after the wait: a new socket is made, the listeners are moved
\* to it.
Reconnect ==
  /\ wsState = "waiting"
  /\ wsState' = "connecting"
  /\ handshakes' = 0
  /\ handledHere' = 0
  /\ probes' = 0
  /\ missed' = FALSE
  /\ UNCHANGED <<otherThanConn, minReconnectionDelay, retryCount, delays,
                 timers, pingThrew, srv, delivered, handled, w3State,
                 reconnectAttempts, w3Delays, w3Errors>>

\* A handler registered anew at every open, as the ping timers are: a
\* message is handled once for each registration.
RECURSIVE HandleMessagePerOpen(_, _, _)
HandleMessagePerOpen(seq, m, n) ==
  IF n <= 0 THEN seq ELSE HandleMessagePerOpen(Append(seq, m), m, n - 1)

\* ReconnectingWebSocket._handleMessage calls connection.onmessage, which was
\* assigned once when the subscription was made; n is the number of timers.
HandleMessage(seq, m, n) == Append(seq, m)

\* The optimist sends a notification: on an open socket it arrives and
\* connection.onmessage is called with it; otherwise it is lost.
Notification ==
  /\ srv < MaxMsgs
  /\ srv' = srv + 1
  /\ IF wsState = "open"
       THEN /\ delivered' = Append(delivered, srv + 1)
            /\ handled' = HandleMessage(handled, srv + 1, timers)
            /\ handledHere' = handledHere + 1
       ELSE UNCHANGED <<delivered, handled, handledHere>>
  /\ UNCHANGED <<otherThanConn, minReconnectionDelay, wsState, retryCount,
                 delays, handshakes, timers, probes, missed, pingThrew,
                 w3State, reconnectAttempts, w3Delays, w3Errors>>

\* A keepalive timer fires: connection._ws.ping().  ws sends the ping on an
\* open socket, throws on a connecting one and does nothing on a closed one.
Ping ==
  /\ timers > 0
  /\ wsState \in {"open", "connecting"}
  /\ wsState = "open" => probes < MaxProbes
  /\ probes' = IF wsState = "open" THEN probes + 1 ELSE probes
  /\ pingThrew' = (pingThrew \/ wsState = "connecting")
  /\ UNCHANGED <<otherThanConn, minReconnectionDelay, wsState, retryCount,
                 delays, handshakes, handledHere, timers, missed, srv,
                 delivered, handled, w3State, reconnectAttempts, w3Delays,
                 w3Errors>>

\* The pong of a ping arrives; no listener is registered for it.
Pong ==
  /\ wsState = "open"
  /\ probes > 0
  /\ probes' = probes - 1
  /\ UNCHANGED <<otherThanConn, minReconnectionDelay, wsState, retryCount,
                 delays, handshakes, handledHere, timers, missed, pingThrew,
                 srv, delivered, handled, w3State, reconnectAttempts,
                 w3Delays, w3Errors>>

\* The time for a pong passes without one; nothing in nf3.mjs waits for it.
PongOverdue ==
  /\ wsState = "open"
  /\ probes > 0
  /\ ~missed
  /\ missed' = TRUE
  /\ UNCHANGED <<otherThanConn, minReconnectionDelay, wsState, retryCount,
                 delays, handshakes, handledHere, timers, probes, pingThrew,
                 srv, delivered, handled, w3State, reconnectAttempts,
                 w3Delays, w3Errors>>

\* The provider's socket closes uncleanly, or a reconnection attempt fails:
\* WebsocketProvider.reconnect() sets a timer of `delay` ms while attempts
\* remain, else emits 'error', which nf3 logs.
W3Disconnect ==
  /\ w3State \in {"open", "connecting"}
  /\ IF reconnectAttempts < maxAttempts
       THEN /\ w3State' = "waiting"
            /\ w3Delays' = w3Delays \cup {delay}
            /\ UNCHANGED w3Errors
       ELSE /\ w3State' = "failed"
            /\ w3Errors' = w3Errors + 1
            /\ UNCHANGED w3Delays
  /\ UNCHANGED <<otherThanConn, minReconnectionDelay, wsState, retryCount,
                 delays, handshakes, handledHere, timers, probes, missed,
                 pingThrew, srv, delivered, handled, reconnectAttempts>>

\* The provider's timer fires: reconnectAttempts++, connect().
W3Reconnect ==
  /\ w3State = "waiting"
  /\ w3State' = "connecting"
  /\ reconnectAttempts' = reconnectAttempts + 1
  /\ UNCHANGED <<otherThanConn, minReconnectionDelay, wsState, retryCount,
                 delays, handshakes, handledHere, timers, probes, missed,
                 pingThrew, srv, delivered, handled, w3Delays, w3Errors>>

\* WebsocketProvider._onConnect: the attempts are counted anew.
W3Open ==
  /\ w3State = "connecting"
  /\ w3State' = "open"
  /\ reconnectAttempts' = 0
  /\ UNCHANGED <<otherThanConn, minReconnectionDelay, wsState, retryCount,
                 delays, handshakes, handledHere, timers, probes, missed,
                 pingThrew, srv, delivered, handled, w3Delays, w3Errors>>

\* Nf3.close(): the interval timers are cleared, the provider's connection
\* and the websockets are closed.  The provider's connection is closed with
\* connection.close(), not with the provider's disconnect(): an open socket
\* closes cleanly (code 1000) and the provider leaves it closed; a socket
\* that is being connected fails, which the provider answers as it answers
\* any loss; a timer the provider has set for its next attempt stays set.
Close ==
  /\ wsState # "closed"
  /\ timers' = 0
  /\ wsState' = "closed"
  /\ w3State' = CASE w3State = "open" -> "closed"
                  [] w3State = "connecting" ->
                       IF reconnectAttempts < maxAttempts
                         THEN "waiting" ELSE "failed"
                  [] OTHER -> w3State
  /\ w3Delays' = IF w3State = "connecting" /\ reconnectAttempts < maxAttempts
                   THEN w3Delays \cup {delay} ELSE w3Delays
  /\ w3Errors' = IF w3State = "connecting" /\ reconnectAttempts >= maxAttempts
                   THEN w3Errors + 1 ELSE w3Errors
  /\ UNCHANGED <<otherThanConn, minReconnectionDelay, retryCount, delays,
                 handshakes, handledHere, probes, missed, pingThrew, srv,
                 delivered, handled, reconnectAttempts>>

ConnNext ==
  \/ OnOpen
  \/ AcceptOpen
  \/ Disconnect
  \/ Reconnect
  \/ Notification
  \/ Ping
  \/ Pong
  \/ PongOverdue
  \/ W3Disconnect
  \/ W3Reconnect
  \/ W3Open
  \/ Close

\* The web3 provider alone, and close().
W3Next ==
  \/ W3Disconnect
  \/ W3Reconnect
  \/ W3Open
  \/ Close

\* ------------------------------------------------------ the test's emptyL2
L2Idle ==
  /\ txPerBlock = 1
  /\ mempool = 0
  /\ eventLogs = 0
  /\ count = 0
  /\ l2Pc = "idle"

\* emptyL2 is called on a deployment with any block size and any number of
\* unprocessed transactions.
L2Init ==
  /\ txPerBlock \in 1..MaxPerBlock
  /\ mempool \in 0..MaxStart
  /\ eventLogs = 0
  /\ count = 0
  /\ l2Pc = "read"

\* count = await nf3Instance.unprocessedTransactionCount(), before the loop
L2Read ==
  /\ l2Pc = "read"
  /\ count' = mempool
  /\ l2Pc' = "loop"
  /\ UNCHANGED <<otherThanL2, txPerBlock, mempool, eventLogs>>

\* depositNTransactions(nf3Instance, count % txPerBlock ? count % txPerBlock
\* : txPerBlock, ...) under if (count % txPerBlock).
Deposited(c, t) == c % t

\* while (count !== 0): deposits if the count is no multiple of the block
\* size, then waits for blockProposed; after the loop, txPerBlock deposits.
L2Loop ==
  /\ l2Pc = "loop"
  /\ IF count # 0
       THEN /\ mempool' = IF count % txPerBlock # 0
                            THEN mempool + Deposited(count, txPerBlock)
                            ELSE mempool
            /\ l2Pc' = "wait"
       ELSE /\ mempool' = mempool + txPerBlock
            /\ l2Pc' = "finalWait"
  /\ UNCHANGED <<otherThanL2, txPerBlock, eventLogs, count>>

\* eventLogs = await web3Client.waitForEvent(eventLogs, ['blockProposed']),
\* then count = await nf3Instance.unprocessedTransactionCount()
L2Wait ==
  /\ l2Pc = "wait"
  /\ eventLogs > 0
  /\ eventLogs' = eventLogs - 1
  /\ count' = mempool
  /\ l2Pc' = "loop"
  /\ UNCHANGED <<otherThanL2, txPerBlock, mempool>>

\* The last waitForEvent; emptyL2 returns.
L2FinalWait ==
  /\ l2Pc = "finalWait"
  /\ eventLogs > 0
  /\ eventLogs' = eventLogs - 1
  /\ l2Pc' = "returned"
  /\ UNCHANGED <<otherThanL2, txPerBlock, mempool, count>>

\* The proposer makes a block whenever txPerBlock transactions are pending;
\* the chain's blockProposed is logged.
L2BlockProposed ==
  /\ mempool >= txPerBlock
  /\ mempool' = mempool - txPerBlock
  /\ eventLogs' = eventLogs + 1
  /\ UNCHANGED <<otherThanL2, txPerBlock, count, l2Pc>>

L2Next ==
  \/ L2Read
  \/ L2Loop
  \/ L2Wait
  \/ L2FinalWait
  \/ L2BlockProposed

\* ------------------------------------------------------- derived notions
OnQueue(q) == {i \in DOMAIN tasks : tasks[i].via = "queue" /\ tasks[i].q = q}

\* The job was called by its queue.
Started(i) == tasks[i].phase \in {"est", "sent", "done"}

\* The job was called and its promise has not settled.
Running(i) == tasks[i].phase \in {"est", "sent"}

\* The transaction was sent and neither a receipt nor an error has come.
InFlight(i) == tasks[i].phase = "sent"

Roles == {"proposer", "challenger", "liquidityProvider"}

\* ---------------------------------------------------------- specifications
Init == SdkInit /\ OptIdle /\ GasIdle /\ ConnIdle /\ L2Idle /\ ApiIdle

Next ==
  \/ CoreNext
  \/ \E role \in Queues : DirectSubmit(role)

Spec == Init /\ [][Next]_vars

\* The SDK when every called job gets as far as sending its transaction and
\* the chain answers every sent transaction with a receipt or an error.
\* Nothing obliges a caller to push another job.
Fairness ==
  \A i \in 1..MaxTasks :
    /\ WF_vars(Send(i))
    /\ WF_vars(\E ev \in Events, heard \in BOOLEAN : ChainEvent(i, ev, heard))

SpecLive == Init /\ [][Next]_vars /\ Fairness

\* The submissions of the SDK's calls, queued and direct, with the events a
\* transaction emits after its promise settled.
NextEvents ==
  \/ \E q \in Queues : ApiPush(q)
  \/ \E i \in 1..MaxTasks : Send(i)
  \/ \E i \in 1..MaxTasks, ev \in Events, heard \in BOOLEAN :
       ChainEvent(i, ev, heard)
  \/ \E role \in Queues : DirectSubmit(role)
  \/ \E i \in 1..MaxTasks, ev \in Events : LateEvent(i, ev)

SpecEvents == Init /\ [][NextEvents]_vars

\* Several instances; every called job that is not the proposer's is sent
\* and the chain answers every sent transaction that is not the proposer's.
\* Nothing obliges the chain to answer the proposer's.
OthersStep ==
  \E i \in 1..MaxTasks :
    /\ Send(i) \/ \E ev \in Events : ChainEvent(i, ev, FALSE)
    /\ tasks[i].q # "proposer"

OthersFairness == WF_vars(OthersStep)

SpecShared == Init /\ [][SharedNext]_vars /\ OthersFairness

\* The SDK with the messages its subscriptions do not act on.
NextMsgs ==
  \/ CoreNext
  \/ \E type \in MsgTypes : ProposerOther(type)
  \/ \E type \in MsgTypes : ChallengerOther(type)

SpecMsgs == Init /\ [][NextMsgs]_vars

\* The optimist node.
InitSync == SdkInit /\ OptInit /\ GasIdle /\ ConnIdle /\ L2Idle /\ ApiIdle

\* The optimist node on a chain of MaxLiveChain blocks at most.
InitOpt == InitSync /\ chainN <= MaxLiveChain

SpecOpt == InitOpt /\ [][OptNext]_vars

\* The optimist's process runs as long as it has something to do: a due block
\* is assembled, and a submitted proposal ends with a receipt or an error.
OptFairness ==
  /\ WF_vars(ConditionalMakeBlock)
  /\ WF_vars(ProposalConfirmed \/ ProposalFailed)

\* The optimist node with progress, started one block behind the chain.
InitOptLive == InitOpt /\ mirror = 0 /\ chainN = 1

SpecOptLive == InitOptLive /\ [][OptNext]_vars /\ OptFairness

\* The synchronizer, first run and later run.
SpecSync == InitSync /\ [][SyncNext]_vars

\* emptyL2 of the test, with a proposer and a test process that keep running.
InitUser == SdkInit /\ OptIdle /\ GasIdle /\ ConnIdle /\ L2Idle /\ ApiInit

SpecUser == InitUser /\ [][UserNext]_vars

SpecDeposit == InitUser /\ [][DepositNext]_vars

\* deposit() when the client answers every request, every called job is
\* sent and the chain answers every sent transaction.  Nothing obliges the
\* user to call deposit() again.
DepositFairness ==
  /\ WF_vars(\E c \in 1..MaxTasks : DepositPush(c))
  /\ WF_vars(\E i \in 1..MaxTasks :
               Send(i) \/ \E ev \in Events : ChainEvent(i, ev, FALSE))

SpecDepositLive == InitUser /\ [][DepositNext]_vars /\ DepositFairness

InitL2 == SdkInit /\ OptIdle /\ GasIdle /\ ConnIdle /\ L2Init /\ ApiIdle

L2Fairness ==
  /\ WF_vars(L2Read)
  /\ WF_vars(L2Loop)
  /\ WF_vars(L2Wait)
  /\ WF_vars(L2FinalWait)
  /\ WF_vars(L2BlockProposed)

SpecL2 == InitL2 /\ [][L2Next]_vars /\ L2Fairness

\* Gas estimation, for every answer of the estimator and of the chain.
InitGas == SdkInit /\ OptIdle /\ GasInit /\ ConnIdle /\ L2Idle /\ ApiIdle

SpecGas == InitGas /\ [][GasNext]_vars

\* The connections of one Nf3 instance.
InitConn == SdkInit /\ OptIdle /\ GasIdle /\ ConnInit /\ L2Idle /\ ApiIdle

SpecConn == InitConn /\ [][ConnNext]_vars

\* The provider when every reconnection timer it sets fires.  Nothing
\* obliges the socket to fail or to open, or the caller to call close().
W3Fairness == WF_vars(W3Reconnect)

SpecW3 == InitConn /\ [][W3Next]_vars /\ W3Fairness

\* ------------------------------------------------------------------ claims

\* C1: in every queue the jobs start in the order they were pushed, a job
\* starts only when every job pushed to that queue before it has completed
\* (resolved or rejected), and no two jobs of one queue run at the same time.
QueueOrder ==
  \A q \in Queues :
    /\ Cardinality({i \in OnQueue(q) : Running(i)}) <= 1
    /\ \A i, j \in OnQueue(q) :
         i < j /\ Started(j) => tasks[i].phase = "done"

\* A queue whose first job failed, whose second job is running and whose
\* third job waits.
QueueOrderWitness ==
  \E q \in Queues : \E i, j, k \in OnQueue(q) :
    /\ i < j /\ j < k
    /\ tasks[i].phase = "done" /\ tasks[i].prom.state = "rejected"
    /\ InFlight(j)
    /\ tasks[k].phase = "waiting"

\* C2, as claimed: for each role at most one transaction is in flight,
\* direct calls of submitTransaction included.
OneInFlightPerRole ==
  \A r \in Roles :
    Cardinality({i \in DOMAIN tasks : tasks[i].q = r /\ InFlight(i)}) <= 1

\* C2, amended: for each role at most one transaction submitted through the
\* role's queue is in flight; a direct call of submitTransaction is not
\* serialised with them.
OneQueuedInFlightPerRole ==
  \A r \in Roles : Cardinality({i \in OnQueue(r) : InFlight(i)}) <= 1

\* A role with a queued transaction in flight, a second job waiting behind
\* it, and a direct submission of the same role in flight too.
OneQueuedInFlightWitness ==
  \E r \in Roles : \E i, j \in OnQueue(r) : \E d \in Directs :
    /\ InFlight(i)
    /\ tasks[j].phase = "waiting"
    /\ tasks[d].q = r /\ InFlight(d)

\* C6: a job that fails never stops its queue: the jobs pushed after it are
\* still started.  Every step of the model runs a handler to its end, so a
\* queue that holds waiting jobs while none of its jobs runs has stopped:
\* nothing starts them unless something more is pushed.
FailedJobKeepsQueueGoing ==
  \A q \in Queues : jobs[q] # <<>> => pending[q] >= 1

\* C3: the event queue is not started, conditionalMakeBlock is not called,
\* no notification is processed and no block is assembled (make-now requests
\* included) unless initialBlockSync has completed successfully.
SyncBeforeLiveAction ==
  [][(\/ eventQueueStarted' # eventQueueStarted
      \/ makeBlockStarted' # makeBlockStarted
      \/ Len(evq') < Len(evq)
      \/ assembled' # assembled) => sync' = "ready"]_vars

\* The synchronizer still runs while the HTTP interface has taken a make-now
\* request and enough transactions for a block, and a notification waits:
\* nothing was started and nothing assembled.
SyncBeforeLiveActionWitness ==
  /\ sync = "running"
  /\ listening
  /\ makeNow
  /\ Len(pool) >= TRANSACTIONS_PER_BLOCK
  /\ evq # <<>>
  /\ ~eventQueueStarted /\ ~makeBlockStarted
  /\ assembled = <<>>

\* C4: a block is assembled only in a state where mayPropose() is true,
\* whatever the pool holds and whether or not make-now was signalled.
AssembleOnlyIfMayPropose == [][assembled' # assembled => mayPropose]_vars

\* This node assembled a block while it was the proposer; now it is not, the
\* pool holds enough transactions for a block and make-now is signalled.
AssembleOnlyIfMayProposeWitness ==
  /\ assembled # <<>>
  /\ sync = "ready" /\ makeBlockStarted
  /\ ~isSelf
  /\ Len(pool) >= TRANSACTIONS_PER_BLOCK
  /\ makeNow

\* C5: a reveal job for a block exists only if a commit job of this
\* challenger for the same block was pushed before it and its transaction
\* got its receipt; when the commit's transaction failed there is no reveal
\* job for the block.
RevealAfterCommit ==
  \A i \in DOMAIN tasks :
    /\ tasks[i].kind = "reveal" =>
         \E j \in 1..(i - 1) :
           /\ tasks[j].kind = "commit" /\ tasks[j].blk = tasks[i].blk
           /\ tasks[j].prom = [state |-> "resolved", value |-> "receipt"]
    /\ tasks[i].kind = "commit" /\ tasks[i].prom.state = "rejected" =>
         \A k \in DOMAIN tasks :
           ~(tasks[k].kind = "reveal" /\ tasks[k].blk = tasks[i].blk)

\* The reveal of a block is in flight after the commit for it succeeded.
RevealAfterCommitWitness ==
  \E i, j \in DOMAIN tasks :
    /\ tasks[j].kind = "commit" /\ tasks[j].prom.state = "resolved"
    /\ tasks[i].kind = "reveal" /\ tasks[i].blk = tasks[j].blk
    /\ InFlight(i)

\* C7: the promise of a submission is pending until the transaction's first
\* event; from then on it is resolved with the receipt if that event was the
\* receipt and rejected with the error if it was an error, whatever events
\* follow.
SettledOnceByFirstEvent ==
  \A i \in DOMAIN tasks :
    IF tasks[i].evs = <<>>
      THEN tasks[i].prom.state = "pending"
      ELSE tasks[i].prom =
             IF tasks[i].evs[1] = "receipt"
               THEN [state |-> "resolved", value |-> "receipt"]
               ELSE [state |-> "rejected", value |-> "error"]

\* A transaction emitted its receipt and then an error: the promise stays
\* resolved with the receipt.
SettledOnceByFirstEventWitness ==
  \E i \in DOMAIN tasks :
    /\ tasks[i].evs = <<"receipt", "error">>
    /\ tasks[i].prom.state = "resolved"

\* The value estimateGasPrice multiplies: the estimator's when its query
\* succeeded, else the chain's when that query succeeded, else GAS_PRICE.
ChosenPrice ==
  IF gasIn.estimator.ok
    THEN (IF gasIn.estimator.price = NaN THEN NaN
          ELSE gasIn.estimator.price * GWEI)
    ELSE IF gasIn.chainPrice.ok THEN gasIn.chainPrice.value ELSE GAS_PRICE

\* C8: once estimateGasPrice has returned, the chain was asked for its price
\* only if the estimator's query failed, and the price is the chosen tier's
\* value times GAS_PRICE_MULTIPLIER, rounded up.
ThreeTierGasPrice ==
  gasPc \in {"limit", "built"} =>
    /\ gasAsked = IF gasIn.estimator.ok THEN {"estimator"}
                  ELSE {"estimator", "chain"}
    /\ gasPrice = CeilMul(ChosenPrice, GAS_PRICE_MULTIPLIER)
    /\ ~gasIn.estimator.ok =>
         /\ gasPrice * GAS_PRICE_MULTIPLIER[2]
              >= ChosenPrice * GAS_PRICE_MULTIPLIER[1]
         /\ (gasPrice - 1) * GAS_PRICE_MULTIPLIER[2]
              < ChosenPrice * GAS_PRICE_MULTIPLIER[1]

\* Both queries failed: the price is GAS_PRICE times the multiplier, and the
\* product had to be rounded.
ThreeTierGasPriceWitness ==
  /\ gasPc = "built"
  /\ ~gasIn.estimator.ok /\ ~gasIn.chainPrice.ok
  /\ gasAsked = {"estimator", "chain"}
  /\ gasPrice * GAS_PRICE_MULTIPLIER[2] > GAS_PRICE * GAS_PRICE_MULTIPLIER[1]

\* The value estimateGas multiplies.
ChosenGas == IF gasIn.chainGas.ok THEN gasIn.chainGas.value ELSE GAS

\* C9: estimateGas returns whatever the chain answers: the chain's estimate,
\* or GAS when the query failed, times GAS_MULTIPLIER, rounded up.
GasLimitRoundedUp ==
  gasPc = "built" =>
    /\ gasLimit * GAS_MULTIPLIER[2] >= ChosenGas * GAS_MULTIPLIER[1]
    /\ (gasLimit - 1) * GAS_MULTIPLIER[2] < ChosenGas * GAS_MULTIPLIER[1]

\* The chain's query failed and the product had to be rounded.
GasLimitRoundedUpWitness ==
  /\ gasPc = "built"
  /\ ~gasIn.chainGas.ok
  /\ gasLimit * GAS_MULTIPLIER[2] > GAS * GAS_MULTIPLIER[1]

\* The jobs of a kind.
Jobs(kind) == {i \in DOMAIN tasks : tasks[i].kind = kind}

\* C10: the proposer queue holds one block job for each 'block' message the
\* proposer's subscription received, the challenger queue one commit job for
\* each 'commit' message and one reveal job for each 'challenge' message the
\* challenger's subscription received; none of these jobs is on another
\* queue.
OneJobPerMessage ==
  /\ Cardinality(Jobs("block")) = rx["proposer"]["block"]
  /\ Cardinality(Jobs("commit")) = rx["challenger"]["commit"]
  /\ Cardinality(Jobs("reveal")) = rx["challenger"]["challenge"]
  /\ Jobs("block") \subseteq OnQueue("proposer")
  /\ Jobs("commit") \cup Jobs("reveal") \subseteq OnQueue("challenger")

\* Each subscription's messages arrived, and one of a type it does not act
\* on.
OneJobPerMessageWitness ==
  /\ rx["proposer"]["block"] >= 1
  /\ rx["challenger"]["commit"] >= 1
  /\ rx["challenger"]["challenge"] >= 1
  /\ Ignored >= 1

\* C11: on every socket of the subscription, the first and every later one,
\* the handshake is sent exactly once when the socket opens, and no message
\* is handled on a socket whose handshake was not sent.
HandshakeOncePerOpen ==
  /\ handshakes <= 1
  /\ wsState = "open" => handshakes = 1
  /\ handledHere > 0 => handshakes = 1

\* The connection was lost and reopened, the handshake was sent again and a
\* message was handled on the new socket.
HandshakeOncePerOpenWitness ==
  /\ delays # <<>>
  /\ wsState = "open"
  /\ handshakes = 1
  /\ handledHere > 0

\* C12: the notifications onmessage was called with are the notifications
\* that arrived on the connection, each once and in their order, however
\* often the connection was lost and reopened.
HandledExactlyOnce == handled = delivered

\* One notification was handled before the connection was lost and one on
\* the socket opened afterwards.
HandledExactlyOnceWitness ==
  /\ delays # <<>>
  /\ Len(delivered) = 2
  /\ handledHere = 1
  /\ timers >= 2

\* C13, as claimed: every connection retries with one fixed delay and within
\* a budget of attempts.
FixedDelayBoundedRetry ==
  /\ \A i, j \in DOMAIN delays : delays[i] = delays[j]
  /\ w3Delays \subseteq {delay}
  /\ reconnectAttempts <= maxAttempts

\* C13, amended: the web3 provider retries after `delay` ms each time, at
\* most maxAttempts times in a row, then stops and emits one error that is
\* logged.  The subscription's connection has no budget and no failed state;
\* its delay starts at the minimum and grows by the factor with each retry
\* up to maxReconnectionDelay, starting anew once a socket stayed open.
ReconnectPolicies ==
  /\ w3Delays \subseteq {delay}
  /\ reconnectAttempts <= maxAttempts
  /\ w3State = "failed" => reconnectAttempts = maxAttempts /\ w3Errors = 1
  /\ w3Errors > 0 => w3State \in {"failed", "closed"}
  /\ wsState \in {"waiting", "connecting", "open", "closed"}
  /\ \A i \in DOMAIN delays :
       /\ delays[i] >= minReconnectionDelay
       /\ delays[i] <= maxReconnectionDelay
  /\ wsState \in {"waiting", "connecting"} /\ retryCount = 1 =>
       delays[Len(delays)] = minReconnectionDelay
  /\ wsState \in {"waiting", "connecting"} /\ retryCount >= 2 =>
       /\ Len(delays) >= 2
       /\ delays[Len(delays)] =
            Min((delays[Len(delays) - 1] * reconnectionDelayGrowFactor[1])
                  \div reconnectionDelayGrowFactor[2], maxReconnectionDelay)

\* The provider has given up after its last attempt, and the subscription
\* has waited longer for its second retry than for its first.
ReconnectPoliciesWitness ==
  /\ w3State = "failed"
  /\ Len(delays) >= 2
  /\ delays[2] > delays[1]

\* C14, as claimed: an open connection has a ping timer, and a ping that
\* gets no timely pong makes the connection count as disconnected.
KeepaliveDetectsSilence ==
  [][/\ wsState' = "open" => timers' >= 1
     /\ ~missed /\ missed' => wsState' # "open"]_vars

\* C14, amended: an open connection has at least one ping timer; a ping that
\* gets no timely pong changes nothing: the connection stays open and no
\* reconnection is started.
KeepaliveWithoutDetection ==
  [][/\ wsState' = "open" => timers' >= 1
     /\ ~missed /\ missed' =>
          wsState' = "open" /\ retryCount' = retryCount /\ delays' = delays]_vars

\* A ping is unanswered past its time on a connection that is still open.
KeepaliveWithoutDetectionWitness ==
  /\ wsState = "open"
  /\ probes > 0
  /\ missed

\* C15: every job pushed to the queue of a role is eventually finished: its
\* transaction got a receipt or an error and the job has passed that on.
EveryJobFinishes ==
  \A i \in 1..MaxTasks :
    (i \in DOMAIN tasks /\ tasks[i].via = "queue" /\ tasks[i].q \in Roles)
      ~> (i \in DOMAIN tasks /\ tasks[i].phase = "done")

MakeNowFlushes ==
  [][(makeNow /\ ~makeNow') =>
       /\ mayPropose
       /\ IF pool = <<>>
            THEN assembled' = assembled /\ proposal' = proposal
            ELSE /\ Len(assembled') = Len(assembled) + 1
                 /\ proposal' = assembled'[Len(assembled')]
                 /\ proposal' =
                      [k \in 1..Min(Len(pool), TRANSACTIONS_PER_BLOCK) |->
                         pool[k]]]_vars

\* A block of fewer than TRANSACTIONS_PER_BLOCK transactions was assembled
\* and proposed, and the next make-now signal finds the pool empty.
MakeNowFlushesWitness ==
  /\ \E b \in DOMAIN assembled :
       Len(assembled[b]) < TRANSACTIONS_PER_BLOCK
  /\ marked = assembled
  /\ pool = <<>>
  /\ makeNow
  /\ mayPropose

\* C18: when the submission of a block proposal fails, the block is not
\* marked assembled and its transactions remain at the head of the pool in
\* their order, to be taken by the next assembly.
FailedProposalKeepsPool ==
  [][(Len(outcomes') > Len(outcomes)
        /\ outcomes'[Len(outcomes')] = "error") =>
       /\ marked' = marked
       /\ pool' = pool
       /\ \A k \in DOMAIN proposal : pool'[k] = proposal[k]
       /\ proposal' = <<>>]_vars

\* A block whose submission failed was assembled again with the same
\* transactions and then proposed.
FailedProposalKeepsPoolWitness ==
  /\ Len(assembled) = 2
  /\ assembled[2] = assembled[1]
  /\ outcomes = <<"error", "receipt">>
  /\ marked = <<assembled[1]>>

\* C19: once the synchronization has failed it stays failed; the event queue
\* is never started and processes nothing, no block is assembled and no
\* challenge is raised.
FailedSyncHaltsLiveDuty ==
  [][sync = "failed" =>
       /\ sync' = "failed"
       /\ ~eventQueueStarted'
       /\ ~makeBlockStarted'
       /\ Len(evq') >= Len(evq)
       /\ assembled' = <<>>
       /\ challenges' = 0]_vars

\* The synchronization failed, and the node was then notified of a faulty
\* block, holds a full pool and was asked to make a block.
FailedSyncHaltsLiveDutyWitness ==
  /\ sync = "failed"
  /\ listening
  /\ \E k \in DOMAIN evq : evq[k] = "faultyBlock"
  /\ Len(pool) >= TRANSACTIONS_PER_BLOCK
  /\ makeNow

\* C20: the synchronizer applies the missing blocks m+1..n in ascending
\* order, one per step, and is ready only when the mirrored count is the
\* chain's count n and the mirror's root is the chain's root as of block n.
SyncInOrder ==
  /\ mirror <= chainN
  /\ \A k \in DOMAIN applied : applied[k] = (mirror - Len(applied)) + k
  /\ sync = "ready" => mirror = chainN /\ MirrorRoot = ChainRoot(chainN)

\* A mirror that held one block caught up with a chain of three.
SyncInOrderWitness ==
  /\ sync = "ready"
  /\ applied = <<2, 3>>
  /\ chainN = 3

\* C21: a run of the synchronizer that follows a completed run, with no
\* new block on-chain, changes neither the mirror (leaf count, root) nor the
\* transaction pool.
ResyncChangesNothing ==
  [][rerun = "running" =>
       /\ mirror' = mirror
       /\ applied' = applied
       /\ MirrorRoot' = MirrorRoot
       /\ sync' = sync
       /\ rerun' # rerun => pool' = pool /\ marked' = marked]_vars

\* A second run completed on a mirror of three blocks, two of them applied
\* by the first run, while the pool held a transaction.
ResyncChangesNothingWitness ==
  /\ rerun = "done"
  /\ mirror = 3
  /\ Len(applied) = 2
  /\ pool # <<>>

LoserSendsNoReveal ==
  \A b \in BlockIds :
    /\ chainCommit[b] = "rival" =>
         /\ engine[b] # "Committed"
         /\ \A i \in DOMAIN tasks :
              tasks[i].blk = b =>
                /\ tasks[i].kind # "reveal"
                /\ tasks[i].kind = "commit" => tasks[i].prom.state # "resolved"
    /\ (b \in chainReveal \/ \E i \in DOMAIN tasks :
                               tasks[i].kind = "reveal" /\ tasks[i].blk = b)
         => chainCommit[b] = "self"

\* The rival's commit got on-chain first and this challenger's commit for
\* the same block failed.
LoserSendsNoRevealWitness ==
  \E b \in BlockIds, i \in DOMAIN tasks :
    /\ chainCommit[b] = "rival"
    /\ tasks[i].kind = "commit" /\ tasks[i].blk = b
    /\ tasks[i].phase = "done" /\ tasks[i].caller = "rejected"
    /\ engine[b] = "Detected"

\* The queue holds a waiting or a running job.
Busy(q) == jobs[q] # <<>> \/ pending[q] > 0

\* The 'end' events queue q has emitted.
Ends(q) == Cardinality({i \in DOMAIN tasks : tasks[i].q = q /\ tasks[i].ended})

\* C24: a queue emits 'end' once in every step that takes it from holding a
\* job to holding none with none running, and in no other step.
DrainedOncePerTransition ==
  [][\A q \in Queues :
       IF Busy(q) /\ ~Busy(q)'
         THEN Ends(q)' = Ends(q) + 1
         ELSE Ends(q)' = Ends(q)]_vars

\* C25: for every block size and every starting number of unprocessed
\* transactions emptyL2 returns and the optimist is left without unprocessed
\* transactions, once the proposer has made the blocks that are due.
EmptyL2Returns == <>[](l2Pc = "returned" /\ mempool = 0)

CallsOf(fn) == {c \in DOMAIN calls : calls[c].fn = fn}
TasksOf(fn) == {i \in DOMAIN tasks : tasks[i].fn = fn}

\* C27: a requestInstantWithdrawal the client refuses (the withdrawal does
\* not exist or is in no block yet) returns null and leaves the tasks and
\* the queues as they were: no job is pushed, no transaction is submitted.
RefusedInstantReturnsNull ==
  /\ [](Cardinality(TasksOf("requestInstantWithdrawal"))
         = Cardinality({c \in CallsOf("requestInstantWithdrawal") :
                         ~calls[c].refused}))
  /\ [][Len(calls') > Len(calls)
          /\ calls'[Len(calls')].fn = "requestInstantWithdrawal"
          /\ calls'[Len(calls')].refused
          => /\ calls'[Len(calls')].ret = "null"
             /\ calls'[Len(calls')].task = 0
             /\ UNCHANGED <<tasks, jobs, pending>>]_vars

RefusedInstantReturnsNullWitness ==
  \E c, d \in DOMAIN calls :
    /\ c < d
    /\ calls[c].fn = "withdraw"
    /\ calls[c].task # 0
    /\ calls[d].fn = "requestInstantWithdrawal"
    /\ calls[d].refused
    /\ calls[d].ret = "null"

Recorded ==
  {i \in TasksOf("deposit") :
     \E n \in DOMAIN tasks[i].evs : tasks[i].evs[n] = "receipt"}

\* C29: the deposit limit the deployment set for the token is the floor of
\* a quarter of its withdraw limit, and a deposit above it is reverted: the
\* promise deposit() returned is rejected and the deposit is not recorded.
DepositAboveLimitReverts ==
  /\ 4 * restriction.deposit <= restriction.withdraw
  /\ restriction.withdraw < 4 * (restriction.deposit + 1)
  /\ \A i \in TasksOf("deposit") :
       tasks[i].val > restriction.deposit
         => /\ i \notin Recorded
            /\ tasks[i].phase = "done" => tasks[i].caller = "rejected"

DepositAboveLimitRevertsWitness ==
  \E i, j \in TasksOf("deposit") :
    /\ tasks[i].val = restriction.deposit + 1
    /\ tasks[i].caller = "rejected"
    /\ tasks[j].val = restriction.deposit
    /\ j \in Recorded
    /\ restriction.withdraw % 4 # 0

\* C30: the approval of a deposit() call is pushed before the deposit of
\* the same call, and the deposit's submission starts only when the
\* approval's has ended, however the deposit() calls interleave.
ApprovalBeforeDeposit ==
  \A c \in DOMAIN deposits :
    deposits[c].approval # 0 /\ deposits[c].deposit # 0
      => /\ deposits[c].approval < deposits[c].deposit
         /\ tasks[deposits[c].deposit].phase # "waiting"
            => tasks[deposits[c].approval].phase = "done"

ApprovalBeforeDepositWitness ==
  /\ Len(deposits) = 2
  /\ deposits[1].approval = 1
  /\ deposits[2].approval = 0
  /\ deposits[2].deposit = 2
  /\ deposits[1].deposit = 3
  /\ tasks[3].phase = "done"

\* C31: every 'block' message startProposer received is answered by one
\* 'receipt' or 'error' of the emitter: a block job that was pushed ends
\* with its emit.
EveryBlockAnswered ==
  \A i \in 1..MaxTasks :
    (i \in DOMAIN tasks /\ tasks[i].kind = "block")
      ~> (i \in DOMAIN tasks /\ tasks[i].emitted # "none")

\* C32: submitTransaction sends once, after the gas price and the gas limit
\* were estimated: signed with the local key when one is held, unsigned
\* (left to the provider's signer) when none is held.
SignsIffKeyHeld ==
  /\ [](sentVia # "none"
         => /\ gasPc = "sent"
            /\ "estimator" \in gasAsked
            /\ gasLimit # 0
            /\ sentVia = "signed" <=> ethereumSigningKey)
  /\ [][sentVia' # sentVia => sentVia = "none" /\ gasPc = "built"]_vars

SignsIffKeyHeldWitness ==
  /\ sentVia = "unsigned"
  /\ ~ethereumSigningKey
  /\ gasAsked = {"estimator", "chain"}
  /\ gasIn.chainGas.ok

\* C38: the transaction submitTransaction builds has a numeric gas price
\* and a numeric gas limit, whatever the estimator answered.
GasPriceIsANumber ==
  gasPc \in {"built", "sent"} => gasPrice # NaN /\ gasLimit # NaN

\* C36: at most one keepalive timer is active for the subscription's
\* connection, however often it was opened.
OneKeepaliveTimer == timers <= 1

\* C37: once close() was called no keepalive timer is active, the
\* subscription's socket is closed and stays closed, and the provider has no
\* socket open or being opened.
ClosedStaysClosed ==
  wsState = "closed"
    => timers = 0 /\ w3State \notin {"open", "connecting"}

\* C33: while the instance is not closed, a provider whose socket is down
\* for good is set again, so that a connection is attempted.
DownProviderIsReset ==
  (w3State = "failed" /\ wsState # "closed")
    ~> (w3State = "connecting" \/ wsState = "closed")

\* C34: when the synchronization starts both websocket subscriptions are
\* made, and neither the event queue is started nor conditionalMakeBlock
\* called before the synchronization has started.
SubscribeSyncStart ==
  /\ [](sync # "idle" => wsSubs = {"blockAssembled", "challenge"})
  /\ [](eventQueueStarted \/ makeBlockStarted => sync # "idle")
  /\ [][sync = "idle" /\ sync' # "idle"
          => /\ wsSubs = {"blockAssembled", "challenge"}
             /\ ~eventQueueStarted' /\ ~makeBlockStarted']_vars

SubscribeSyncStartWitness ==
  /\ wsSubs = {"blockAssembled", "challenge"}
  /\ sync = "ready"
  /\ applied # <<>>
  /\ eventQueueStarted
  /\ makeBlockStarted
  /\ listening

\* C35: the jobs on the user and the liquidity-provider queue are started
\* and end even if the chain never answers a transaction of the proposer
\* queue: time and again all of them have ended.
OtherQueuesGoOn ==
  []<>(\A i \in DOMAIN tasks :
         tasks[i].q # "proposer" => tasks[i].phase = "done")

OtherQueuesGoOnWitness ==
  \E i, j, k \in DOMAIN tasks :
    /\ i < j /\ j < k
    /\ tasks[i].q = "proposer"
    /\ tasks[i].phase = "sent"
    /\ tasks[j].q = "user"
    /\ tasks[j].phase = "done"
    /\ tasks[k].q = "liquidityProvider"
    /\ tasks[k].phase = "done"

\* C40: submissions that different Nf3 instances pushed on the same role
\* queue run one at a time in push order: the later one is not started
\* before the earlier one has settled.
InstancesShareQueues ==
  \A i, j \in DOMAIN tasks :
    /\ i < j
    /\ tasks[i].q = tasks[j].q
    /\ tasks[i].inst # tasks[j].inst
    => /\ tasks[j].phase # "waiting" => tasks[i].phase = "done"
       /\ ~(tasks[i].phase \in {"est", "sent"}
            /\ tasks[j].phase \in {"est", "sent"})

InstancesShareQueuesWitness ==
  \E i, j \in DOMAIN tasks :
    /\ i < j
    /\ tasks[i].q = "user"
    /\ tasks[j].q = "user"
    /\ tasks[i].inst = 1
    /\ tasks[j].inst = 2
    /\ tasks[i].phase = "sent"
    /\ tasks[j].phase = "waiting"

\* C39: the promise of every deposit() call whose job was pushed is
\* settled in the end, resolved or rejected.
EveryDepositSettles ==
  \A i \in 1..MaxTasks :
    (i \in DOMAIN tasks /\ tasks[i].fn = "deposit")
      ~> (i \in DOMAIN tasks /\ tasks[i].caller # "pending")
====
